---- MODULE Spec2Model ----
(***************************************************************************)
(* A model of the Renju rules engine (src/web-app/renju.js).               *)
(*                                                                         *)
(* A JavaScript array is modelled as a function on 0..n-1, so that rows    *)
(* and columns keep the zero-based indices of the source.  The move log is *)
(* a sequence; moves[moves.length - 1] is moves[Len(moves)].               *)
(* The cell value null is the string "null".                               *)
(***************************************************************************)
EXTENDS Integers, Sequences, FiniteSets, TLC

VARIABLES gameState, accepted, returned, paused

vars == <<gameState, accepted, returned, paused>>

\* the default dimensions of initiateGame
Width == 15

Height == 15

(***************************************************************************)
(* Bounds of the exploration.                                              *)
(***************************************************************************)
\* longest move log explored
MaxMoves == 9

\* the cells a caller tries in attemptPly / attemptRemove: the centre, three
\* of its neighbours (a straight and two diagonal ones), a cell two rows
\* below and one far cell
TryCells ==
    {<<7, 7>>, <<6, 7>>, <<6, 8>>, <<8, 8>>, <<9, 8>>, <<3, 7>>}

Colours == {"black", "white"}

(***************************************************************************)
(* Arrays.                                                                 *)
(***************************************************************************)
Length(array) == Cardinality(DOMAIN array)

\* a new array holding the elements of the given one (Array.prototype.slice,
\* R.clone): a value equal to it
Copy(array) == CHOOSE copy \in {array} : copy = array

\* Array.prototype.slice(start, end) with in-range or negative start
Slice(array, start, end) ==
    LET len == Length(array)
        from == IF start < 0
                THEN (IF len + start < 0 THEN 0 ELSE len + start)
                ELSE (IF start > len THEN len ELSE start)
        to == IF end < 0
              THEN (IF len + end < 0 THEN 0 ELSE len + end)
              ELSE (IF end > len THEN len ELSE end)
        n == IF to > from THEN to - from ELSE 0
    IN  Copy([i \in 0..(n - 1) |-> array[from + i]])

\* the index pairs of a two dimensional array
Cells(board) ==
    UNION {{<<i, j>> : j \in DOMAIN board[i]} : i \in DOMAIN board}

\* the value of a cell of a two dimensional array
at(board, cell) == board[cell[1]][cell[2]]

(***************************************************************************)
(* Helper functions.                                                       *)
(***************************************************************************)
\* createBoard testing the width only
createBoard_widthOnly(width, height, input) ==
    IF width % 2 = 0
    THEN [threw |-> TRUE]
    ELSE [threw |-> FALSE,
          board |-> [i \in 0..(width - 1) |-> [j \in 0..(height - 1) |-> input]]]

createBoard(width, height, input) ==
    IF width % 2 = 0 \/ height % 2 = 0
    THEN [threw |-> TRUE]
    ELSE [threw |-> FALSE,
          board |-> [i \in 0..(width - 1) |-> [j \in 0..(height - 1) |-> input]]]

movesMadeFromBoard(board) ==
    Cardinality({cell \in Cells(board) : at(board, cell) # "null"})

Abs(number) == IF number < 0 THEN -number ELSE number

\* isNextTo with a strict comparison of the rows
isNextTo_strict(row1, column1, row2, column2) ==
    Abs(column1 - column2) <= 1 /\ Abs(row1 - row2) < 1

isNextTo(row1, column1, row2, column2) ==
    Abs(column1 - column2) <= 1 /\ Abs(row1 - row2) <= 1

getBoardColumnNumber(board) == Length(board)

getBoardRowNumber(board) == Length(board[0])

\* half rounding up
half_ceil(number) == (number + 1) \div 2

half(number) == number \div 2

\* rotateBoard without the reversal of each new row (a transposition)
rotateBoard_transpose(board) ==
    [index \in DOMAIN board[0] |->
        [k \in DOMAIN board |-> board[k][index]]]

rotateBoard(board) ==
    [index \in DOMAIN board[0] |->
        [k \in DOMAIN board |-> board[Length(board) - 1 - k][index]]]

\* getBoardSection leaving out the ending row
getBoardSection_short(startingRow, endingRow, startingColumn, endingColumn, board) ==
    LET rows == Slice(board, startingRow, endingRow)
    IN  [i \in DOMAIN rows |-> Slice(rows[i], startingColumn, endingColumn + 1)]

getBoardSection(startingRow, endingRow, startingColumn, endingColumn, board) ==
    LET rows == Slice(board, startingRow, endingRow + 1)
    IN  [i \in DOMAIN rows |-> Slice(rows[i], startingColumn, endingColumn + 1)]

(***************************************************************************)
(* API.                                                                    *)
(***************************************************************************)
initiateGame(width, height, input) ==
    LET created == createBoard(width, height, input)
    IN  IF created.threw
        THEN [threw |-> TRUE]
        ELSE [threw |-> FALSE,
              gameState |-> [board |-> created.board, moves |-> <<>>]]

movesMade(gs) == Len(gs.moves)

nextMoveNumber(gs) == movesMade(gs) + 1

\* colourToMove switching back to strict alternation one move late
colourToMove_lateSwitch(gs) ==
    IF movesMade(gs) <= 4 \/ movesMade(gs) >= 8
    THEN (IF movesMade(gs) % 2 = 0 THEN "black" ELSE "white")
    ELSE (IF movesMade(gs) % 2 = 0 THEN "white" ELSE "black")

colourToMove(gs) ==
    IF movesMade(gs) <= 4 \/ movesMade(gs) >= 7
    THEN (IF movesMade(gs) % 2 = 0 THEN "black" ELSE "white")
    ELSE (IF movesMade(gs) % 2 = 0 THEN "white" ELSE "black")

\* checkNormalMove accepting either colour
checkNormalMove_anyColour(playerColour, gs) == TRUE

checkNormalMove(playerColour, gs) ==
    IF playerColour # colourToMove(gs) THEN FALSE ELSE TRUE

\* the while loop of checkMoveThree; it never ends when four rotations
\* have brought the board back without finding the white stone, which the
\* field diverges records
RECURSIVE checkMoveThreeLoop(_, _, _)
checkMoveThreeLoop(s, middleRow, middleColumn) ==
    IF s.cellAboveMiddle = "white" \/ s.cellAccrossMiddle = "white"
    THEN s
    ELSE IF s.rotations >= 4
    THEN [s EXCEPT !.diverges = TRUE]
    ELSE checkMoveThreeLoop(
            [cellAboveMiddle |-> s.newBoard[middleRow][middleColumn - 1],
             cellAccrossMiddle |-> s.newBoard[middleRow - 1][middleColumn - 1],
             wasRotated |-> TRUE,
             newBoard |-> rotateBoard(s.newBoard),
             rotations |-> s.rotations + 1,
             diverges |-> FALSE],
            middleRow, middleColumn)

\* the search without the rotation after a loop that did not rotate
checkMoveThreeSearch_loopOnly(playerColour, row, column, board) ==
    LET placed == [board EXCEPT ![row][column] = playerColour]
        middleColumn == half(getBoardColumnNumber(placed))
        middleRow == half(getBoardRowNumber(placed))
    IN  checkMoveThreeLoop(
            [cellAboveMiddle |-> placed[middleRow - 1][middleColumn],
             cellAccrossMiddle |-> placed[middleRow - 1][middleColumn - 1],
             wasRotated |-> FALSE,
             newBoard |-> placed,
             rotations |-> 0,
             diverges |-> FALSE],
            middleRow, middleColumn)

\* checkMoveThree from the placing of the candidate to the end of the search
\* for the white stone: the loop, then the one rotation of a board that the
\* loop did not rotate and that holds the white stone across the middle
checkMoveThreeSearch(playerColour, row, column, board) ==
    LET placed == [board EXCEPT ![row][column] = playerColour]
        middleColumn == half(getBoardColumnNumber(placed))
        middleRow == half(getBoardRowNumber(placed))
        s == checkMoveThreeLoop(
                [cellAboveMiddle |-> placed[middleRow - 1][middleColumn],
                 cellAccrossMiddle |-> placed[middleRow - 1][middleColumn - 1],
                 wasRotated |-> FALSE,
                 newBoard |-> placed,
                 rotations |-> 0,
                 diverges |-> FALSE],
                middleRow, middleColumn)
    IN  IF ~s.wasRotated /\ s.cellAccrossMiddle = "white"
        THEN [s EXCEPT !.newBoard = rotateBoard(s.newBoard),
                       !.rotations = s.rotations + 1]
        ELSE s

checkMoveThree(playerColour, row, column, board) ==
    IF playerColour = "white"
    THEN FALSE
    ELSE
    LET middleColumn == half(getBoardColumnNumber(board))
        middleRow == half(getBoardRowNumber(board))
        s == checkMoveThreeSearch(playerColour, row, column, board)
        newBoard == s.newBoard
        validBoardSectionVertical ==
            getBoardSection(middleRow - 2, middleRow + 2,
                            middleColumn, middleColumn + 2, newBoard)
        diagonalCount ==
            movesMadeFromBoard(getBoardSection(middleRow, middleRow + 2,
                middleColumn, middleColumn + 2, newBoard))
            + movesMadeFromBoard(getBoardSection(middleRow - 1, middleRow - 1,
                middleColumn + 1, middleColumn + 2, newBoard))
            + movesMadeFromBoard(getBoardSection(middleRow + 1, middleRow + 2,
                middleColumn - 1, middleColumn - 1, newBoard))
            + (IF newBoard[middleRow + 2][middleColumn - 2] # "null"
               THEN 1 ELSE 0)
            + (IF newBoard[middleRow - 2][middleColumn + 2] # "null"
               THEN 1 ELSE 0)
    IN  IF s.diverges
        THEN FALSE
        ELSE IF s.cellAboveMiddle = "white"
        THEN movesMadeFromBoard(validBoardSectionVertical) = 3
        ELSE IF s.cellAccrossMiddle = "white"
        THEN diagonalCount = 3
        ELSE FALSE

\* R.update(row, R.update(column, playerColour)) replaces the whole row of
\* the candidate by one value that is neither null nor "removed" (the
\* partially applied R.update), which R.flatten keeps as one element
\* checkMoveSeven without the test for a removed stone
checkMoveSeven_noRemoval(playerColour, row, column, board) ==
    IF playerColour # "white"
    THEN FALSE
    ELSE
    LET otherRows == {cell \in Cells(board) : cell[1] # row}
    IN  Cardinality({cell \in otherRows : at(board, cell) # "null"}) + 1 = 7

checkMoveSeven(playerColour, row, column, board) ==
    IF playerColour # "white"
    THEN FALSE
    ELSE
    LET otherRows == {cell \in Cells(board) : cell[1] # row}
    IN  IF ~(\E i \in DOMAIN board \ {row} :
                \E j \in DOMAIN board[i] : board[i][j] = "removed")
        THEN FALSE
        ELSE Cardinality({cell \in otherRows : at(board, cell) # "null"}) + 1 = 7

\* isMoveValid asking white for the fifth move
isMoveValid_whiteFifth(playerColour, row, column, gs) ==
    LET board == gs.board
        columnMiddle == half(getBoardColumnNumber(board))
        rowMiddle == half(getBoardRowNumber(board))
    IN  IF board[row][column] # "null" /\ board[row][column] # "removed"
        THEN FALSE
        ELSE CASE nextMoveNumber(gs) = 1 ->
                    /\ column = columnMiddle
                    /\ row = rowMiddle
                    /\ playerColour = "black"
               [] nextMoveNumber(gs) = 2 ->
                    /\ isNextTo(rowMiddle, columnMiddle, row, column)
                    /\ playerColour = "white"
               [] nextMoveNumber(gs) = 3 ->
                    checkMoveThree(playerColour, row, column, board)
               [] nextMoveNumber(gs) = 4 -> playerColour = "white"
               [] nextMoveNumber(gs) = 5 -> playerColour = "white"
               [] nextMoveNumber(gs) = 6 -> playerColour = "black"
               [] nextMoveNumber(gs) = 7 ->
                    checkMoveSeven(playerColour, row, column, board)
               [] OTHER -> checkNormalMove(playerColour, gs)

isMoveValid(playerColour, row, column, gs) ==
    LET board == gs.board
        columnMiddle == half(getBoardColumnNumber(board))
        rowMiddle == half(getBoardRowNumber(board))
    IN  IF board[row][column] # "null" /\ board[row][column] # "removed"
        THEN FALSE
        ELSE CASE nextMoveNumber(gs) = 1 ->
                    /\ column = columnMiddle
                    /\ row = rowMiddle
                    /\ playerColour = "black"
               [] nextMoveNumber(gs) = 2 ->
                    /\ isNextTo(rowMiddle, columnMiddle, row, column)
                    /\ playerColour = "white"
               [] nextMoveNumber(gs) = 3 ->
                    checkMoveThree(playerColour, row, column, board)
               [] nextMoveNumber(gs) = 4 -> playerColour = "white"
               [] nextMoveNumber(gs) = 5 -> playerColour = "black"
               [] nextMoveNumber(gs) = 6 -> playerColour = "black"
               [] nextMoveNumber(gs) = 7 ->
                    checkMoveSeven(playerColour, row, column, board)
               [] OTHER -> checkNormalMove(playerColour, gs)

\* attemptPly writing the stone to board[column][row]
attemptPly_transposed(playerColour, row, column, gs) ==
    IF isMoveValid(playerColour, row, column, gs)
    THEN [gameState |->
            [board |-> [gs.board EXCEPT ![column][row] = playerColour],
             moves |-> Append(gs.moves,
                              [row |-> row,
                               column |-> column,
                               playerColour |-> playerColour,
                               removed |-> FALSE])],
          valid |-> TRUE]
    ELSE [valid |-> FALSE]

attemptPly(playerColour, row, column, gs) ==
    IF isMoveValid(playerColour, row, column, gs)
    THEN [gameState |->
            [board |-> [gs.board EXCEPT ![row][column] = playerColour],
             moves |-> Append(gs.moves,
                              [row |-> row,
                               column |-> column,
                               playerColour |-> playerColour,
                               removed |-> FALSE])],
          valid |-> TRUE]
    ELSE [valid |-> FALSE]

\* attemptRemove accepting only the cell of the last move
attemptRemove_lastOnly(row, column, gs) ==
    LET moves == gs.moves
        previousMove == moves[Len(moves)]
    IN  IF movesMade(gs) # 6
        THEN [valid |-> FALSE]
        ELSE IF ~(previousMove.row = row /\ previousMove.column = column)
        THEN [valid |-> FALSE]
        ELSE [gameState |->
                [board |-> [gs.board EXCEPT ![row][column] = "removed"],
                 moves |-> Append(moves,
                                  [row |-> row,
                                   column |-> column,
                                   playerColour |-> "black",
                                   removed |-> TRUE,
                                   doubleThree |-> FALSE,
                                   doubleFour |-> FALSE])],
              valid |-> TRUE]

\* attemptRemove logging the removal without taking the stone off the board
attemptRemove_keepsStone(row, column, gs) ==
    LET moves == gs.moves
        previousMove == moves[Len(moves)]
        secondPreviousMove == moves[Len(moves) - 1]
    IN  IF movesMade(gs) # 6
        THEN [valid |-> FALSE]
        ELSE IF ~(\/ (previousMove.row = row /\ previousMove.column = column)
                  \/ (/\ secondPreviousMove.row = row
                      /\ secondPreviousMove.column = column))
        THEN [valid |-> FALSE]
        ELSE [gameState |->
                [board |-> gs.board,
                 moves |-> Append(moves,
                                  [row |-> row,
                                   column |-> column,
                                   playerColour |-> "black",
                                   removed |-> TRUE,
                                   doubleThree |-> FALSE,
                                   doubleFour |-> FALSE])],
              valid |-> TRUE]

\* attemptRemove accepting any cell of the board on the seventh move
attemptRemove_anyCell(row, column, gs) ==
    IF movesMade(gs) # 6
    THEN [valid |-> FALSE]
    ELSE [gameState |->
            [board |-> [gs.board EXCEPT ![row][column] = "removed"],
             moves |-> Append(gs.moves,
                              [row |-> row,
                               column |-> column,
                               playerColour |-> "black",
                               removed |-> TRUE,
                               doubleThree |-> FALSE,
                               doubleFour |-> FALSE])],
          valid |-> TRUE]

attemptRemove(row, column, gs) ==
    LET moves == gs.moves
        previousMove == moves[Len(moves)]
        secondPreviousMove == moves[Len(moves) - 1]
    IN  IF movesMade(gs) # 6
        THEN [valid |-> FALSE]
        ELSE IF ~(\/ (previousMove.row = row /\ previousMove.column = column)
                  \/ (/\ secondPreviousMove.row = row
                      /\ secondPreviousMove.column = column))
        THEN [valid |-> FALSE]
        ELSE [gameState |->
                [board |-> [gs.board EXCEPT ![row][column] = "removed"],
                 moves |-> Append(moves,
                                  [row |-> row,
                                   column |-> column,
                                   playerColour |-> "black",
                                   removed |-> TRUE,
                                   doubleThree |-> FALSE,
                                   doubleFour |-> FALSE])],
              valid |-> TRUE]

\* attemptPass allowed one move too early
attemptPass_early(playerColour, gs) ==
    IF movesMade(gs) < 2
    THEN [valid |-> FALSE]
    ELSE IF ~checkNormalMove(playerColour, gs)
    THEN [valid |-> FALSE]
    ELSE [gameState |->
            [board |-> gs.board,
             moves |-> Append(gs.moves,
                              [row |-> -1,
                               column |-> -1,
                               playerColour |-> playerColour,
                               removed |-> FALSE,
                               doubleThree |-> FALSE,
                               doubleFour |-> FALSE])],
          valid |-> TRUE]

\* attemptPass returning the position without logging the pass
attemptPass_unlogged(playerColour, gs) ==
    IF movesMade(gs) < 3
    THEN [valid |-> FALSE]
    ELSE IF ~checkNormalMove(playerColour, gs)
    THEN [valid |-> FALSE]
    ELSE [gameState |-> [board |-> gs.board, moves |-> gs.moves],
          valid |-> TRUE]

attemptPass(playerColour, gs) ==
    IF movesMade(gs) < 3
    THEN [valid |-> FALSE]
    ELSE IF ~checkNormalMove(playerColour, gs)
    THEN [valid |-> FALSE]
    ELSE [gameState |->
            [board |-> gs.board,
             moves |-> Append(gs.moves,
                              [row |-> -1,
                               column |-> -1,
                               playerColour |-> playerColour,
                               removed |-> FALSE,
                               doubleThree |-> FALSE,
                               doubleFour |-> FALSE])],
          valid |-> TRUE]

(***************************************************************************)
(* The pattern scanner.  A list of run lengths is a sequence; the number 0 *)
(* that getTouchingCells and countTouchingInARow use is the string "0".    *)
(***************************************************************************)
\* R.clone: a deep copy
R_clone(value) == Copy(value)

Concat(array1, array2) ==
    [k \in 0..(Length(array1) + Length(array2) - 1) |->
        IF k < Length(array1) THEN array1[k] ELSE array2[k - Length(array1)]]

pad2DArray(padding, padValue, board) ==
    [i \in 0..(Length(board) + 2 * padding - 1) |->
        [j \in 0..(Length(board[0]) + 2 * padding - 1) |->
            IF /\ i - padding \in 0..(Length(board) - 1)
               /\ j - padding \in 0..(Length(board[0]) - 1)
            THEN board[i - padding][j - padding]
            ELSE padValue]]

\* row.forEach of countTouchingInARow, from the element at index on
RECURSIVE countTouchingInARowLoop(_, _, _, _, _, _, _)
countTouchingInARowLoop(playerColour, row, index, counter, largestCounter, startingIndex, previousValue) ==
    IF index \notin DOMAIN row
    THEN [startingIndex |-> startingIndex, largestCounter |-> largestCounter]
    ELSE
    LET value == row[index]
        newCounter == IF value = playerColour /\ value = previousValue
                      THEN counter + 1
                      ELSE 1
    IN  IF newCounter > largestCounter
        THEN countTouchingInARowLoop(playerColour, row, index + 1,
                newCounter, newCounter, index - newCounter + 1, value)
        ELSE countTouchingInARowLoop(playerColour, row, index + 1,
                newCounter, largestCounter, startingIndex, value)

\* countTouchingInARow returning a range one index short
countTouchingInARow_short(playerColour, row) ==
    LET s == countTouchingInARowLoop(playerColour, row, 0, 1, 1, 0, "0")
    IN  [i \in 0..(s.largestCounter - 2) |-> s.startingIndex + i]

countTouchingInARow(playerColour, row) ==
    LET s == countTouchingInARowLoop(playerColour, row, 0, 1, 1, 0, "0")
    IN  [i \in 0..(s.largestCounter - 1) |-> s.startingIndex + i]

countHorizontalTouching(playerColour, board) ==
    LET numberOfTouchingPieces ==
            [k \in 1..Length(board) |->
                Length(countTouchingInARow(playerColour, board[k - 1]))]
    IN  SelectSeq(numberOfTouchingPieces, LAMBDA x : x >= 2)

countVerticalTouching(playerColour, board) ==
    countHorizontalTouching(playerColour, rotateBoard(board))

changeDiagonalToHorizontalUp(board) ==
    LET numRows == Length(board)
        numElements == Length(board[0])
    IN  [k \in 0..(numRows + numElements - 2) |->
            LET first == IF k - (numElements - 1) > 0
                         THEN k - (numElements - 1)
                         ELSE 0
                last == IF k < numRows - 1 THEN k ELSE numRows - 1
            IN  [t \in 0..(last - first) |-> board[first + t][k - first - t]]]

changeDiagonalToHorizontalDown(board) ==
    LET numRows == Length(board)
        numElements == Length(board[0])
    IN  [k \in 0..(numRows + numElements - 2) |->
            LET first == IF k - (numElements - 1) > 0
                         THEN k - (numElements - 1)
                         ELSE 0
                last == IF k < numRows - 1 THEN k ELSE numRows - 1
            IN  [t \in 0..(last - first) |->
                    board[numRows - 1 - (first + t)][k - first - t]]]

changeDiagonalToHorizontal(board) ==
    Concat(changeDiagonalToHorizontalUp(board),
           changeDiagonalToHorizontalDown(board))

countDiagonalTouching(playerColour, board) ==
    LET temporaryBoard == changeDiagonalToHorizontal(R_clone(board))
    IN  countHorizontalTouching(playerColour, temporaryBoard)

totalNumberOfTouchingPieces(playerColour, board) ==
    LET temporaryBoard == R_clone(board)
    IN  countVerticalTouching(playerColour, temporaryBoard)
            \o countHorizontalTouching(playerColour, temporaryBoard)
            \o countDiagonalTouching(playerColour, temporaryBoard)

checkIfFiveInARow(playerColour, board) ==
    LET numberOfTouchingPieces ==
            totalNumberOfTouchingPieces(playerColour, board)
    IN  \E k \in DOMAIN numberOfTouchingPieces : numberOfTouchingPieces[k] = 5

checkOverline_seven(playerColour, board) ==
    LET numberOfTouchingPieces ==
            totalNumberOfTouchingPieces(playerColour, board)
    IN  \E k \in DOMAIN numberOfTouchingPieces : numberOfTouchingPieces[k] > 6

checkOverline(playerColour, board) ==
    LET numberOfTouchingPieces ==
            totalNumberOfTouchingPieces(playerColour, board)
    IN  \E k \in DOMAIN numberOfTouchingPieces : numberOfTouchingPieces[k] > 5

getCellsAround(rowIndex, columnIndex, number, board) ==
    LET temporaryBoard == pad2DArray(number, "null", R_clone(board))
    IN  getBoardSection(rowIndex, rowIndex + 2 * number,
                        columnIndex, columnIndex + 2 * number, temporaryBoard)

\* getTouchingCells showing the white stones around a black one as black
getTouchingCells_whiteAsBlack(board) ==
    LET numRows == Length(board)
        numCols == Length(board[0])
        middleValue == board[numRows \div 2][numCols \div 2]
    IN  [i \in 0..(numRows - 1) |->
            [j \in 0..(numCols - 1) |->
                IF board[i][j] = middleValue
                THEN board[i][j]
                ELSE IF middleValue = "black" /\ board[i][j] = "white"
                THEN "black"
                ELSE "0"]]

getTouchingCells(board) ==
    LET numRows == Length(board)
        numCols == Length(board[0])
        middleRow == numRows \div 2
        middleCol == numCols \div 2
        middleValue == board[middleRow][middleCol]
        isValidCell(row, col) ==
            /\ row >= 0
            /\ row < numRows
            /\ col >= 0
            /\ col < numCols
            /\ (\/ board[row][col] = middleValue
                \/ board[row][col] = board[middleRow][middleCol])
    IN  [i \in 0..(numRows - 1) |->
            [j \in 0..(numCols - 1) |->
                IF isValidCell(i, j) THEN board[i][j] ELSE "0"]]

blackMakesDoubleThree(board) ==
    \E rowIndex \in DOMAIN board :
        \E columnIndex \in DOMAIN board[rowIndex] :
            LET cellsAround == getCellsAround(rowIndex, columnIndex, 2, board)
                touchingCells == getTouchingCells(cellsAround)
                numberOfTouchingPieces ==
                    SelectSeq(totalNumberOfTouchingPieces("black", touchingCells),
                              LAMBDA x : x = 3)
            IN  Len(numberOfTouchingPieces) >= 2

blackMakesDoubleFour(board) ==
    \E rowIndex \in DOMAIN board :
        \E columnIndex \in DOMAIN board[rowIndex] :
            LET cellsAround == getCellsAround(rowIndex, columnIndex, 3, board)
                touchingCells == getTouchingCells(cellsAround)
                numberOfTouchingPieces ==
                    SelectSeq(totalNumberOfTouchingPieces("black", touchingCells),
                              LAMBDA x : x = 4)
            IN  Len(numberOfTouchingPieces) >= 2

\* moves.pop() of an empty log gives undefined and board[-1] of a pass is
\* undefined: reading or writing a property of undefined throws
removeLastMove(gs) ==
    IF Len(gs.moves) = 0
    THEN [threw |-> TRUE]
    ELSE
    LET lastMove == gs.moves[Len(gs.moves)]
    IN  IF lastMove.row \notin DOMAIN gs.board
        THEN [threw |-> TRUE]
        ELSE [threw |-> FALSE,
              gameState |->
                [board |-> [gs.board EXCEPT
                                ![lastMove.row][lastMove.column] = "null"],
                 moves |-> SubSeq(gs.moves, 1, Len(gs.moves) - 1)]]

\* isBoardFull taking a Removed cell for an empty one
isBoardFull_removedEmpty(board) ==
    \A i \in DOMAIN board : \A j \in DOMAIN board[i] :
        board[i][j] # "null" /\ board[i][j] # "removed"

isBoardFull(board) ==
    \A i \in DOMAIN board : \A j \in DOMAIN board[i] : board[i][j] # "null"

noWinningMoves(playerColour) ==
    [threw |-> FALSE,
     valid |-> FALSE,
     reason |-> IF playerColour = "black"
                THEN "No winning moves for black."
                ELSE "No winning moves for white."]

checkWin(playerColour, gs) ==
    LET board == gs.board
        doubleFour == blackMakesDoubleFour(board)
        doubleThree == blackMakesDoubleThree(board)
        retracted == removeLastMove(gs)
    IN  IF playerColour = "black"
        THEN IF checkIfFiveInARow("black", board)
             THEN [threw |-> FALSE, valid |-> TRUE,
                   reason |-> "5 in a row for black."]
             ELSE noWinningMoves(playerColour)
        ELSE IF playerColour # "white"
        THEN noWinningMoves(playerColour)
        ELSE IF \/ checkIfFiveInARow("white", board)
                \/ checkOverline("white", board)
        THEN [threw |-> FALSE, valid |-> TRUE,
              reason |-> "5 or more in a row for white."]
        ELSE IF checkOverline("black", board)
        THEN [threw |-> FALSE, valid |-> TRUE,
              reason |-> "Black makes overline."]
        ELSE IF doubleFour /\ retracted.threw
        THEN [threw |-> TRUE]
        ELSE IF doubleFour /\ ~blackMakesDoubleFour(retracted.gameState.board)
        THEN [threw |-> FALSE, valid |-> TRUE,
              reason |-> "Black makes double four."]
        ELSE IF doubleThree /\ retracted.threw
        THEN [threw |-> TRUE]
        ELSE IF doubleThree /\ ~blackMakesDoubleThree(retracted.gameState.board)
        THEN [threw |-> FALSE, valid |-> TRUE,
              reason |-> "Black makes double three."]
        ELSE noWinningMoves(playerColour)

checkDraw(gs) ==
    IF movesMade(gs) < 3
    THEN [valid |-> FALSE,
          reason |-> "The game has not progressed far enough."]
    ELSE IF isBoardFull(gs.board)
    THEN [valid |-> TRUE, reason |-> "The board is full."]
    ELSE IF /\ gs.moves[Len(gs.moves)].row = -1
            /\ gs.moves[Len(gs.moves) - 1].row = -1
    THEN [valid |-> TRUE, reason |-> "The last two moves were passes."]
    ELSE [valid |-> FALSE]

(***************************************************************************)
(* Objects.  A reference is the list of three flags: whether the object it *)
(* points to, the object's elements and the elements of those are objects  *)
(* of the caller.  A statement that writes to an object changes what the   *)
(* caller holds exactly when the object is the caller's.  Each ...Given    *)
(* operator is the position a caller passed to the call, as the call       *)
(* leaves it.                                                              *)
(***************************************************************************)
\* the reference the caller passes
given == <<TRUE, TRUE, TRUE>>

\* the reference to a field or an element of the object
member(reference) == <<reference[2], reference[3], reference[3]>>

\* a copy of the outer object that keeps the elements of the original
cloneReference_shallow(reference) == <<FALSE, reference[2], reference[3]>>

\* R.clone: new objects at every depth
cloneReference(reference) == <<FALSE, FALSE, FALSE>>

\* the object is the caller's
isGiven(reference) == reference[1]

\* newBoard[row][column] = playerColour of checkMoveThree
checkMoveThreeGiven(playerColour, row, column, gs) ==
    LET newBoard == cloneReference(member(given))
    IN  IF playerColour # "white" /\ isGiven(member(newBoard))
        THEN [gs EXCEPT !.board[row][column] = playerColour]
        ELSE gs

\* isMoveValid writes nothing but through checkMoveThree on the third move
isMoveValidGiven(playerColour, row, column, gs) ==
    IF gs.board[row][column] # "null" /\ gs.board[row][column] # "removed"
    THEN gs
    ELSE IF nextMoveNumber(gs) = 3
    THEN checkMoveThreeGiven(playerColour, row, column, gs)
    ELSE gs

\* moves.push and board[row][column] = playerColour of attemptPly
attemptPlyGiven(playerColour, row, column, gs) ==
    LET checked == isMoveValidGiven(playerColour, row, column, gs)
        board == cloneReference(member(given))
        moves == cloneReference(member(given))
        attempted == attemptPly(playerColour, row, column, checked)
    IN  IF ~isMoveValid(playerColour, row, column, gs)
        THEN checked
        ELSE [board |-> IF isGiven(member(board))
                        THEN attempted.gameState.board
                        ELSE checked.board,
              moves |-> IF isGiven(moves)
                        THEN attempted.gameState.moves
                        ELSE checked.moves]

\* moves.push and board[row][column] = "removed" of attemptRemove
attemptRemoveGiven(row, column, gs) ==
    LET board == cloneReference(member(given))
        moves == cloneReference(member(given))
        attempted == attemptRemove(row, column, gs)
    IN  IF ~attempted.valid
        THEN gs
        ELSE [board |-> IF isGiven(member(board))
                        THEN attempted.gameState.board
                        ELSE gs.board,
              moves |-> IF isGiven(moves)
                        THEN attempted.gameState.moves
                        ELSE gs.moves]

\* moves.push of attemptPass
attemptPassGiven(playerColour, gs) ==
    LET moves == cloneReference(member(given))
        attempted == attemptPass(playerColour, gs)
    IN  IF ~attempted.valid
        THEN gs
        ELSE [board |-> gs.board,
              moves |-> IF isGiven(moves)
                        THEN attempted.gameState.moves
                        ELSE gs.moves]

\* newGameState.moves.pop() and newGameState.board[row][column] = null of
\* removeLastMove; the pop comes before the statement that throws
removeLastMoveGiven(gs) ==
    LET newGameState == cloneReference(given)
        popped == IF isGiven(member(newGameState)) /\ gs.moves # <<>>
                  THEN [gs EXCEPT !.moves = SubSeq(gs.moves, 1, Len(gs.moves) - 1)]
                  ELSE gs
        retracted == removeLastMove(gs)
    IN  IF retracted.threw
        THEN popped
        ELSE IF isGiven(member(member(newGameState)))
        THEN [popped EXCEPT !.board = retracted.gameState.board]
        ELSE popped

\* checkWin writes nothing but through removeLastMove, which it calls for
\* white once for a double four on the board and, when that did not end the
\* call, once for a double three
checkWinGiven(playerColour, gs) ==
    LET board == gs.board
        afterFour == removeLastMoveGiven(gs)
    IN  IF \/ playerColour # "white"
           \/ checkIfFiveInARow("white", board)
           \/ checkOverline("white", board)
           \/ checkOverline("black", board)
        THEN gs
        ELSE IF ~blackMakesDoubleFour(board)
        THEN IF blackMakesDoubleThree(board)
             THEN removeLastMoveGiven(gs)
             ELSE gs
        ELSE IF removeLastMove(gs).threw
        THEN afterFour
        ELSE IF ~blackMakesDoubleFour(removeLastMove(gs).gameState.board)
        THEN afterFour
        ELSE IF blackMakesDoubleThree(afterFour.board)
        THEN removeLastMoveGiven(afterFour)
        ELSE afterFour

\* checkDraw reads the position and writes nothing
checkDrawGiven(gs) == gs

(***************************************************************************)
(* The game: a caller holds one position and replaces it by the position   *)
(* an accepted attempt returns; a rejected attempt leaves it as it is.     *)
(* accepted counts the attempts that were accepted since the game started, *)
(* by kind; the program does not hold it.                                  *)
(***************************************************************************)
noneAccepted == [placements |-> 0, removals |-> 0, passes |-> 0]

\* returned holds what a direct call of initiateGame or of the scanner gave
\* back, with its arguments; the game actions leave it alone
noneReturned == [call |-> "none"]

Init ==
    /\ gameState = initiateGame(Width, Height, "null").gameState
    /\ accepted = noneAccepted
    /\ returned = noneReturned
    /\ paused = FALSE

AttemptPly(playerColour, row, column) ==
    LET attemptedPly == attemptPly(playerColour, row, column, gameState)
    IN  /\ movesMade(gameState) < MaxMoves
        /\ gameState' = IF attemptedPly.valid
                        THEN attemptedPly.gameState
                        ELSE gameState
        /\ accepted' = IF attemptedPly.valid
                       THEN [accepted EXCEPT !.placements = @ + 1]
                       ELSE accepted
        /\ UNCHANGED <<returned, paused>>

AttemptRemove(row, column) ==
    LET attemptedRemove == attemptRemove(row, column, gameState)
    IN  /\ movesMade(gameState) < MaxMoves
        /\ gameState' = IF attemptedRemove.valid
                        THEN attemptedRemove.gameState
                        ELSE gameState
        /\ accepted' = IF attemptedRemove.valid
                       THEN [accepted EXCEPT !.removals = @ + 1]
                       ELSE accepted
        /\ UNCHANGED <<returned, paused>>

AttemptPass(playerColour) ==
    LET attemptedPass == attemptPass(playerColour, gameState)
    IN  /\ movesMade(gameState) < MaxMoves
        /\ gameState' = IF attemptedPass.valid
                        THEN attemptedPass.gameState
                        ELSE gameState
        /\ accepted' = IF attemptedPass.valid
                       THEN [accepted EXCEPT !.passes = @ + 1]
                       ELSE accepted
        /\ UNCHANGED <<returned, paused>>

Next ==
    \/ \E playerColour \in Colours, cell \in TryCells :
            AttemptPly(playerColour, cell[1], cell[2])
    \/ \E cell \in TryCells : AttemptRemove(cell[1], cell[2])
    \/ \E playerColour \in Colours : AttemptPass(playerColour)

Spec == Init /\ [][Next]_vars

TypeOK ==
    /\ movesMade(gameState) <= MaxMoves
    /\ \A cell \in Cells(gameState.board) :
            gameState.board[cell[1]][cell[2]]
                \in {"black", "white", "removed", "null"}

(***************************************************************************)
(* Recorded games.  A caller replays a game of the book move by move: with *)
(* the log so far a prefix of a recorded game, it attempts the next move   *)
(* of that game.  An entry of a recorded game is the move the engine logs  *)
(* when it accepts the attempt.                                            *)
(***************************************************************************)
isPlacement(move) == move.row # -1 /\ ~move.removed

stone(playerColour, row, column) ==
    [row |-> row, column |-> column,
     playerColour |-> playerColour, removed |-> FALSE]

removal(row, column) ==
    [row |-> row, column |-> column, playerColour |-> "black",
     removed |-> TRUE, doubleThree |-> FALSE, doubleFour |-> FALSE]

pass(playerColour) ==
    [row |-> -1, column |-> -1, playerColour |-> playerColour,
     removed |-> FALSE, doubleThree |-> FALSE, doubleFour |-> FALSE]

Stones(playerColour, cells) ==
    [i \in 1..Len(cells) |-> stone(playerColour, cells[i][1], cells[i][2])]

Passes(playerColour, n) == [i \in 1..n |-> pass(playerColour)]

\* the moves of white and of black in turn, white first
Weave(whites, blacks) ==
    [i \in 1..(Len(whites) + Len(blacks)) |->
        IF i % 2 = 1 THEN whites[(i + 1) \div 2] ELSE blacks[i \div 2]]

\* the side of the board of the page before a game type is chosen
SmallSize == 9

\* openings on the small board: black holds (4,4), (4,5), (4,6) after the
\* first, (4,4), (4,5), (8,0) after the second
SmallOpening ==
    <<stone("black", 4, 4), stone("white", 3, 4), stone("black", 4, 5),
      stone("white", 3, 5), stone("black", 4, 6), stone("black", 8, 0)>>

SmallRow == SmallOpening \o <<removal(8, 0)>>

SmallPair == SmallOpening \o <<removal(4, 6)>>

\* white stones that never touch each other, on the small board
SmallWhiteFill ==
    <<<<0, 0>>, <<0, 2>>, <<0, 4>>, <<0, 6>>, <<0, 8>>, <<8, 1>>, <<8, 3>>>>

\* black stones that never touch each other, on the small board
SmallBlackFill == <<<<8, 2>>, <<8, 4>>, <<8, 6>>, <<6, 8>>, <<8, 8>>>>

\* black: a three in column 6 crossing the three of row 4, then a four in
\* each, then a five in each, then six in row 4
CrossBlack ==
    <<<<5, 6>>, <<6, 6>>, <<7, 6>>, <<4, 3>>, <<8, 6>>, <<4, 2>>, <<4, 7>>>>

\* black: a three on each diagonal through the centre, then a four on each
DiagonalBlack ==
    <<<<3, 3>>, <<2, 2>>, <<5, 3>>, <<6, 2>>, <<1, 1>>, <<7, 1>>>>

\* white: five, six and seven in row 3
RowWhite == <<<<3, 3>>, <<3, 2>>, <<3, 6>>, <<3, 1>>, <<3, 7>>>>

\* white: five on the diagonal from (2,5) to (6,1), then six
DiagonalWhite == <<<<4, 3>>, <<5, 2>>, <<6, 1>>, <<2, 5>>, <<7, 0>>>>

\* black: five in column 4 below the centre
ColumnBlack == <<<<5, 4>>, <<6, 4>>, <<7, 4>>, <<8, 4>>>>

\* black: the three in column 6 crossing the three of row 4, then a stone
\* at (6,2) that completes a three in column 2 and a three in row 6 at once
SecondThreeBlack ==
    <<<<5, 6>>, <<6, 6>>, <<5, 2>>, <<7, 2>>, <<6, 1>>, <<6, 3>>, <<6, 2>>>>

\* black: the four in column 6 crossing the four of row 4, then a stone at
\* (7,2) that completes a four in column 2 and a four in row 7 at once
SecondFourBlack ==
    <<<<5, 6>>, <<6, 6>>, <<7, 6>>, <<4, 3>>, <<7, 0>>, <<7, 1>>, <<7, 3>>,
      <<5, 2>>, <<6, 2>>, <<8, 2>>, <<7, 2>>>>

\* more white stones far from the black ones
SmallWhiteMore == <<<<2, 0>>, <<2, 8>>, <<8, 5>>, <<8, 7>>>>

\* black: a four in row 4, two stones in column 2, then the stone at (4,2)
\* that completes the five of row 4 and the three of column 2
FiveAndThreeBlack == <<<<4, 3>>, <<3, 2>>, <<5, 2>>, <<4, 2>>>>

\* black: a second three in row 5, under the three of row 4
ParallelThreeBlack == <<<<5, 4>>, <<5, 5>>, <<5, 6>>>>

SmallBook ==
    {SmallRow \o Weave(Stones("white", SmallWhiteFill),
                       Stones("black", CrossBlack)),
     SmallRow \o Weave(Passes("white", 7), Stones("black", CrossBlack)),
     SmallRow \o Weave(Stones("white", SubSeq(SmallWhiteFill, 1, 2))
                           \o Passes("white", 3),
                       Stones("black", SubSeq(CrossBlack, 1, 4))),
     SmallPair \o Weave(Stones("white", SubSeq(SmallWhiteFill, 1, 6)),
                        Stones("black", DiagonalBlack)),
     SmallPair \o Weave(Passes("white", 6), Stones("black", DiagonalBlack)),
     SmallPair \o Weave(Stones("white", RowWhite),
                        Stones("black", SubSeq(SmallBlackFill, 1, 4))),
     SmallPair \o Weave(Stones("white", RowWhite), Passes("black", 4)),
     SmallPair \o Weave(Stones("white", DiagonalWhite),
                        Stones("black", SmallBlackFill)),
     SmallPair \o Weave(Stones("white", DiagonalWhite), Passes("black", 5)),
     SmallPair \o Weave(Stones("white", SubSeq(SmallWhiteFill, 1, 4)),
                        Stones("black", ColumnBlack)),
     SmallRow \o Weave(Stones("white", SmallWhiteFill),
                       Stones("black", SecondThreeBlack)),
     SmallRow \o Weave(Stones("white", SubSeq(SmallWhiteFill, 1, 4)),
                       Stones("black", FiveAndThreeBlack)),
     SmallRow \o Weave(Stones("white", SubSeq(SmallWhiteFill, 1, 3)),
                       Stones("black", ParallelThreeBlack)),
     SmallPair \o Weave(Stones("white", SubSeq(SmallWhiteFill, 1, 5)),
                        Stones("black", SubSeq(SecondThreeBlack, 3, 7))),
     SmallPair \o Weave(Stones("white", SmallWhiteFill),
                        Stones("black", SubSeq(SecondFourBlack, 5, 11))),
     SmallRow \o Weave(Stones("white", SmallWhiteFill \o SmallWhiteMore),
                       Stones("black", SecondFourBlack))}

\* the side of the smallest board on which the third move can be checked
TinySize == 5

\* an opening on the tiny board, ending with the removal of the sixth stone
TinyRow ==
    <<stone("black", 2, 2), stone("white", 1, 2), stone("black", 2, 3),
      stone("white", 1, 3), stone("black", 2, 4), stone("black", 4, 0),
      removal(4, 0)>>

\* the cells that are empty after the opening and white's stone at (0,0), by
\* rows and by columns
TinyByRows ==
    <<<<0, 1>>, <<0, 2>>, <<0, 3>>, <<0, 4>>, <<1, 0>>, <<1, 1>>, <<1, 4>>,
      <<2, 0>>, <<2, 1>>, <<3, 0>>, <<3, 1>>, <<3, 2>>, <<3, 3>>, <<3, 4>>,
      <<4, 1>>, <<4, 2>>, <<4, 3>>, <<4, 4>>>>

TinyByColumns ==
    <<<<1, 0>>, <<2, 0>>, <<3, 0>>, <<0, 1>>, <<1, 1>>, <<2, 1>>, <<3, 1>>,
      <<4, 1>>, <<0, 2>>, <<3, 2>>, <<4, 2>>, <<0, 3>>, <<3, 3>>, <<4, 3>>,
      <<0, 4>>, <<1, 4>>, <<3, 4>>, <<4, 4>>>>

Reverse(cells) == [i \in 1..Len(cells) |-> cells[Len(cells) + 1 - i]]

OddOf(cells) == [i \in 1..((Len(cells) + 1) \div 2) |-> cells[2 * i - 1]]

EvenOf(cells) == [i \in 1..(Len(cells) \div 2) |-> cells[2 * i]]

\* the opening, white at (0,0), then black and white in turn on the cells in
\* the given order until the board is full
TinyFill(order) ==
    TinyRow \o Weave(Stones("white", <<<<0, 0>>>> \o EvenOf(order)),
                     Stones("black", OddOf(order)))

TinyBook ==
    {TinyFill(TinyByRows)
        \o <<stone("black", 4, 0), pass("white"), pass("black")>>,
     TinyFill(TinyByRows) \o <<pass("black"), pass("white")>>,
     TinyFill(Reverse(TinyByRows)) \o <<pass("black"), stone("white", 4, 0)>>,
     TinyFill(TinyByColumns),
     TinyRow \o Weave(Stones("white", <<<<0, 0>>>>) \o Passes("white", 17),
                      Stones("black", TinyByRows))
        \o <<pass("white"), pass("black")>>,
     TinyRow \o <<stone("white", 0, 0), pass("black"), pass("white"),
                  stone("black", 4, 4), pass("white"), pass("black"),
                  pass("white")>>,
     <<stone("black", 2, 2), stone("white", 1, 2), stone("black", 2, 3),
       pass("white"), pass("black"), stone("black", 4, 0), removal(4, 0),
       stone("white", 0, 0), pass("black"), stone("white", 4, 0)>>}

\* openings on the default board: black holds (7,7), (7,8), (7,9) after the
\* first, (7,7), (7,8), (14,0) after the second
Opening ==
    <<stone("black", 7, 7), stone("white", 6, 7), stone("black", 7, 8),
      stone("white", 6, 8), stone("black", 7, 9), stone("black", 14, 0)>>

OpeningRow == Opening \o <<removal(14, 0)>>

OpeningPair == Opening \o <<removal(7, 9)>>

WhiteFill ==
    <<<<0, 0>>, <<0, 2>>, <<0, 4>>, <<0, 6>>, <<0, 8>>, <<0, 10>>,
      <<0, 12>>, <<0, 14>>>>

BlackFill == <<<<14, 2>>, <<14, 4>>, <<14, 6>>, <<14, 8>>>>

\* black: five in row 7 from the centre on, then a second run in the same
\* row that grows from (7,0) to five and to six stones
SameRowBlack ==
    <<<<7, 10>>, <<7, 11>>, <<7, 0>>, <<7, 1>>, <<7, 2>>, <<7, 3>>,
      <<7, 4>>, <<7, 5>>>>

\* black: five, then six, in column 9
LongColumnBlack == <<<<8, 9>>, <<9, 9>>, <<10, 9>>, <<11, 9>>, <<12, 9>>>>

\* black: five, then six, on the diagonal through the centre
LongDiagonalBlack ==
    <<<<8, 8>>, <<9, 9>>, <<10, 10>>, <<11, 11>>, <<12, 12>>>>

\* black: five, then six, on the other diagonal through the centre
LongAntiDiagonalBlack ==
    <<<<8, 6>>, <<9, 5>>, <<10, 4>>, <<11, 3>>, <<12, 2>>>>

\* black: five, then six, along the lower edge from the corner
EdgeBlack == <<<<14, 1>>, <<14, 2>>, <<14, 3>>, <<14, 4>>, <<14, 5>>>>

\* white: five, then six, in row 6
LongRowWhite == <<<<6, 9>>, <<6, 10>>, <<6, 11>>, <<6, 12>>>>

DefaultBook ==
    {OpeningRow \o Weave(Passes("white", 8), Stones("black", SameRowBlack)),
     OpeningRow \o Weave(Stones("white", WhiteFill),
                         Stones("black", SameRowBlack)),
     OpeningRow \o Weave(Stones("white", SubSeq(WhiteFill, 1, 6)),
                         Stones("black", LongColumnBlack)),
     OpeningRow \o Weave(Stones("white", LongRowWhite \o <<<<0, 0>>>>),
                         Stones("black", LongColumnBlack)),
     OpeningPair \o Weave(Stones("white", SubSeq(WhiteFill, 1, 5)),
                          Stones("black", LongDiagonalBlack)),
     OpeningPair \o Weave(Passes("white", 5),
                          Stones("black", LongAntiDiagonalBlack)),
     OpeningPair \o Weave(Stones("white", SubSeq(WhiteFill, 1, 5)),
                          Stones("black", EdgeBlack)),
     OpeningPair \o Weave(Stones("white", LongRowWhite),
                          Stones("black", SubSeq(BlackFill, 1, 4))),
     OpeningRow \o Weave(Passes("white", 6), Stones("black", LongColumnBlack)),
     OpeningPair \o Weave(Passes("white", 5), Stones("black", EdgeBlack))}

Book == TinyBook \cup SmallBook \cup DefaultBook

\* the next moves of the games recorded on a board of the size of gs that
\* begin with the log of gs
BookEntries(gs) ==
    {line[Len(gs.moves) + 1] :
        line \in {recorded \in Book :
                    /\ recorded[1].row = half(Length(gs.board))
                    /\ Len(recorded) > Len(gs.moves)
                    /\ SubSeq(recorded, 1, Len(gs.moves)) = gs.moves}}

ReplayPly(entry) ==
    LET attemptedPly ==
            attemptPly(entry.playerColour, entry.row, entry.column, gameState)
    IN  /\ isPlacement(entry)
        /\ gameState' = IF attemptedPly.valid
                        THEN attemptedPly.gameState
                        ELSE gameState
        /\ accepted' = IF attemptedPly.valid
                       THEN [accepted EXCEPT !.placements = @ + 1]
                       ELSE accepted
        /\ UNCHANGED <<returned, paused>>

ReplayRemove(entry) ==
    LET attemptedRemove == attemptRemove(entry.row, entry.column, gameState)
    IN  /\ entry.removed
        /\ gameState' = IF attemptedRemove.valid
                        THEN attemptedRemove.gameState
                        ELSE gameState
        /\ accepted' = IF attemptedRemove.valid
                       THEN [accepted EXCEPT !.removals = @ + 1]
                       ELSE accepted
        /\ UNCHANGED <<returned, paused>>

ReplayPass(entry) ==
    LET attemptedPass == attemptPass(entry.playerColour, gameState)
    IN  /\ entry.row = -1
        /\ gameState' = IF attemptedPass.valid
                        THEN attemptedPass.gameState
                        ELSE gameState
        /\ accepted' = IF attemptedPass.valid
                       THEN [accepted EXCEPT !.passes = @ + 1]
                       ELSE accepted
        /\ UNCHANGED <<returned, paused>>

Replay ==
    \/ \E entry \in BookEntries(gameState) : ReplayPly(entry)
    \/ \E entry \in BookEntries(gameState) : ReplayRemove(entry)
    \/ \E entry \in BookEntries(gameState) : ReplayPass(entry)

\* recorded games on the default board
SpecReplay == Init /\ [][Replay]_vars

InitSmall ==
    /\ gameState = initiateGame(SmallSize, SmallSize, "null").gameState
    /\ accepted = noneAccepted
    /\ returned = noneReturned
    /\ paused = FALSE

\* recorded games on the small board
SpecReplaySmall == InitSmall /\ [][Replay]_vars

InitTiny ==
    /\ gameState = initiateGame(TinySize, TinySize, "null").gameState
    /\ accepted = noneAccepted
    /\ returned = noneReturned
    /\ paused = FALSE

\* recorded games on the tiny board
SpecReplayTiny == InitTiny /\ [][Replay]_vars

\* every move of a recorded game is accepted when its turn comes
BookPlayed ==
    Len(gameState.moves) > 0 =>
        \A entry \in BookEntries(gameState) :
            IF entry.row = -1
            THEN attemptPass(entry.playerColour, gameState).valid
            ELSE IF entry.removed
            THEN attemptRemove(entry.row, entry.column, gameState).valid
            ELSE attemptPly(entry.playerColour, entry.row, entry.column,
                            gameState).valid

(***************************************************************************)
(* Properties.                                                             *)
(***************************************************************************)
curBoard == gameState.board

curMoves == gameState.moves

Centre == <<Width \div 2, Height \div 2>>

Max(a, b) == IF a > b THEN a ELSE b

Chebyshev(cell1, cell2) ==
    Max(Abs(cell1[1] - cell2[1]), Abs(cell1[2] - cell2[2]))

plyValid(playerColour, cell) ==
    attemptPly(playerColour, cell[1], cell[2], gameState).valid

\* C1: with no logged move, attemptPly is valid exactly for black at the
\* centre cell (7,7); every other cell and every white placement is rejected.
C1_FirstMoveBlackCentre ==
    movesMade(gameState) = 0 =>
        /\ Centre = <<7, 7>>
        /\ \A playerColour \in Colours, cell \in Cells(curBoard) :
                plyValid(playerColour, cell)
                    <=> (playerColour = "black" /\ cell = <<7, 7>>)

\* C1 witness: the first move has been accepted, black at the centre.
C1_Witness ==
    /\ movesMade(gameState) = 1
    /\ curMoves[1] = [row |-> 7, column |-> 7, playerColour |-> "black",
                   removed |-> FALSE]
    /\ curBoard[7][7] = "black"

\* C2: with exactly one logged move (black at the centre), attemptPly is
\* valid exactly for white on the 8 cells at Chebyshev distance 1 from the
\* centre; black is rejected everywhere, white is rejected at the centre and
\* further away.
C2_SecondMoveWhiteAdjacent ==
    movesMade(gameState) = 1 =>
        /\ curBoard[7][7] = "black"
        /\ \A playerColour \in Colours, cell \in Cells(curBoard) :
                plyValid(playerColour, cell)
                    <=> (playerColour = "white" /\ Chebyshev(cell, Centre) = 1)
        /\ Cardinality({cell \in Cells(curBoard) : plyValid("white", cell)}) = 8

\* C2 witness: white's second move has been accepted next to the centre.
C2_Witness ==
    /\ movesMade(gameState) = 2
    /\ curMoves[2].playerColour = "white"
    /\ Chebyshev(<<curMoves[2].row, curMoves[2].column>>, Centre) = 1
    /\ curBoard[curMoves[2].row][curMoves[2].column] = "white"

\* the position after black (7,7) and the given white second move
afterTwoMoves(row, column) ==
    /\ movesMade(gameState) = 2
    /\ curMoves[1].row = 7 /\ curMoves[1].column = 7
    /\ curMoves[1].playerColour = "black"
    /\ curMoves[2].row = row /\ curMoves[2].column = column
    /\ curMoves[2].playerColour = "white"

validCells(playerColour) ==
    {cell \in Cells(curBoard) : plyValid(playerColour, cell)}

\* C3 as stated: after black (7,7) and white (6,7), black's valid third
\* moves are exactly the 11 cells rows 5..8 at columns 9 and 8 and rows
\* 5, 8, 9 at column 7, and white has no valid placement.
C3_VerticalElevenCells ==
    afterTwoMoves(6, 7) =>
        /\ validCells("black") =
                ((5..8) \X {9}) \cup ((5..8) \X {8}) \cup ({5, 8, 9} \X {7})
        /\ validCells("white") = {}

\* C3 amended: after black (7,7) and white (6,7), black's valid third moves
\* are exactly the 13 cells rows 5..9 at columns 9 and 8 and rows 5, 8, 9 at
\* column 7, and white has no valid placement.
C3_VerticalThirteenCells ==
    afterTwoMoves(6, 7) =>
        /\ validCells("black") =
                ((5..9) \X {9}) \cup ((5..9) \X {8}) \cup ({5, 8, 9} \X {7})
        /\ validCells("white") = {}

\* C3 witness: after white (6,7) black's third move was accepted at (9,8),
\* a cell of row 9.
C3_Witness ==
    /\ movesMade(gameState) = 3
    /\ curMoves[2].row = 6 /\ curMoves[2].column = 7
    /\ curMoves[3] = [row |-> 9, column |-> 8, playerColour |-> "black",
                   removed |-> FALSE]
    /\ curBoard[9][8] = "black"

\* C4: after black (7,7) and white (6,8), black's valid third moves are
\* exactly the 13 cells rows 5..9 at column 9, rows 7..9 at column 8, rows
\* 8, 9 at columns 7 and 6, and (9,5); white has no valid placement.
C4_DiagonalThirteenCells ==
    afterTwoMoves(6, 8) =>
        /\ validCells("black") =
                ((5..9) \X {9}) \cup ((7..9) \X {8}) \cup ({8, 9} \X {7})
                    \cup ({8, 9} \X {6}) \cup {<<9, 5>>}
        /\ validCells("white") = {}

\* C4 witness: after white (6,8) black's third move was accepted at (8,8).
C4_Witness ==
    /\ movesMade(gameState) = 3
    /\ curMoves[2].row = 6 /\ curMoves[2].column = 8
    /\ curMoves[3] = [row |-> 8, column |-> 8, playerColour |-> "black",
                   removed |-> FALSE]
    /\ curBoard[8][8] = "black"

cellOf(move) == <<move.row, move.column>>

\* C5: with exactly 3, 4 or 5 logged moves, attemptPly at an empty cell is
\* valid exactly for white (3 moves), black (4 moves), black (5 moves); the
\* other colour is rejected at every cell.
C5_FourthToSixthMoveColour ==
    movesMade(gameState) \in {3, 4, 5} =>
        LET expected == IF movesMade(gameState) = 3 THEN "white" ELSE "black"
        IN  /\ \A cell \in Cells(curBoard) :
                    at(curBoard, cell) = "null" =>
                        \A playerColour \in Colours :
                            plyValid(playerColour, cell)
                                <=> playerColour = expected
            /\ \A cell \in Cells(curBoard), playerColour \in Colours \ {expected} :
                    ~plyValid(playerColour, cell)

\* C5 witness: the fourth, fifth and sixth moves were accepted as
\* placements by white, black and black.
C5_Witness ==
    /\ movesMade(gameState) = 6
    /\ \A i \in 4..6 : isPlacement(curMoves[i])
    /\ <<curMoves[4].playerColour, curMoves[5].playerColour, curMoves[6].playerColour>>
            = <<"white", "black", "black">>

\* C6: with exactly 6 logged moves attemptPly is rejected for both colours
\* at every cell; after a successful attemptRemove on that position it is
\* valid for white at every empty or removed cell and rejected for black
\* at every cell.
C6_SeventhMoveAfterRemoval ==
    movesMade(gameState) = 6 =>
        /\ \A playerColour \in Colours, cell \in Cells(curBoard) :
                ~plyValid(playerColour, cell)
        /\ \A target \in Cells(curBoard) :
                LET attemptedRemove ==
                        attemptRemove(target[1], target[2], gameState)
                IN  attemptedRemove.valid =>
                        \A playerColour \in Colours, cell \in Cells(curBoard) :
                            attemptPly(playerColour, cell[1], cell[2],
                                       attemptedRemove.gameState).valid
                            <=> /\ playerColour = "white"
                                /\ at(attemptedRemove.gameState.board, cell)
                                        \in {"null", "removed"}

\* C6 witness: after six moves and a removal, white placed a stone on a cell
\* other than the removed one.
C6_Witness ==
    /\ movesMade(gameState) = 8
    /\ curMoves[7].removed
    /\ isPlacement(curMoves[8])
    /\ curMoves[8].playerColour = "white"
    /\ cellOf(curMoves[8]) # cellOf(curMoves[7])
    /\ at(curBoard, cellOf(curMoves[7])) = "removed"

\* C7: the removal step cannot be skipped: whenever the log has more than 6
\* entries, its 7th entry is a removal.
C7_RemovalNeverSkipped ==
    movesMade(gameState) > 6 => curMoves[7].removed

\* C8: attemptRemove on an on-board cell is valid exactly when 6 moves are
\* logged and the cell is that of the 5th or 6th logged move; then that cell
\* becomes Removed, every other cell is unchanged and one move {black,
\* removed, row, column} is appended to the log.
C8_RemoveFifthOrSixth ==
    \A target \in Cells(curBoard) :
        LET attemptedRemove == attemptRemove(target[1], target[2], gameState)
            after == attemptedRemove.gameState
        IN  /\ attemptedRemove.valid
                <=> /\ movesMade(gameState) = 6
                    /\ target \in {cellOf(curMoves[5]), cellOf(curMoves[6])}
            /\ attemptedRemove.valid =>
                /\ Cells(after.board) = Cells(curBoard)
                /\ \A cell \in Cells(curBoard) :
                        at(after.board, cell) =
                            IF cell = target THEN "removed" ELSE at(curBoard, cell)
                /\ Len(after.moves) = 7
                /\ \A i \in 1..6 : after.moves[i] = curMoves[i]
                /\ after.moves[7].playerColour = "black"
                /\ after.moves[7].removed
                /\ cellOf(after.moves[7]) = target

\* C8 witness: the stone of the fifth move (not the last one) was removed.
C8_Witness ==
    /\ movesMade(gameState) = 7
    /\ curMoves[7].removed
    /\ cellOf(curMoves[7]) = cellOf(curMoves[5])
    /\ cellOf(curMoves[7]) # cellOf(curMoves[6])
    /\ at(curBoard, cellOf(curMoves[5])) = "removed"

\* C9: attemptPass(colour) is valid exactly when at least 3 moves are logged
\* and colour is the colour to move; then a pass move (row -1, column -1,
\* that colour) is appended and the board is the input board.
C9_PassOnTurnAfterThree ==
    \A playerColour \in Colours :
        LET attemptedPass == attemptPass(playerColour, gameState)
            after == attemptedPass.gameState
        IN  /\ attemptedPass.valid
                <=> /\ movesMade(gameState) >= 3
                    /\ playerColour = colourToMove(gameState)
            /\ attemptedPass.valid =>
                /\ after.board = curBoard
                /\ Len(after.moves) = Len(curMoves) + 1
                /\ \A i \in 1..Len(curMoves) : after.moves[i] = curMoves[i]
                /\ after.moves[Len(after.moves)].row = -1
                /\ after.moves[Len(after.moves)].column = -1
                /\ after.moves[Len(after.moves)].playerColour = playerColour
                /\ ~after.moves[Len(after.moves)].removed

\* C9 witness: the last logged move is an accepted pass by black, and white
\* passed earlier.
C9_Witness ==
    /\ movesMade(gameState) >= 5
    /\ curMoves[Len(curMoves)].row = -1
    /\ curMoves[Len(curMoves)].playerColour = "black"
    /\ \E i \in 4..(Len(curMoves) - 1) :
            curMoves[i].row = -1 /\ curMoves[i].playerColour = "white"

\* C10: with 7 or more logged moves attemptPly is valid exactly when the
\* target cell is Empty or Removed and the colour is the colour to move; a
\* Removed cell can be re-occupied, a cell holding a stone is rejected.
C10_NormalMove ==
    movesMade(gameState) >= 7 =>
        \A playerColour \in Colours, cell \in Cells(curBoard) :
            plyValid(playerColour, cell)
                <=> /\ at(curBoard, cell) \in {"null", "removed"}
                    /\ playerColour = colourToMove(gameState)

\* C10 witness: a stone was placed on the cell of the removed stone.
C10_Witness ==
    /\ movesMade(gameState) >= 8
    /\ curMoves[7].removed
    /\ \E i \in 8..Len(curMoves) :
            /\ isPlacement(curMoves[i])
            /\ cellOf(curMoves[i]) = cellOf(curMoves[7])
            /\ at(curBoard, cellOf(curMoves[7])) = curMoves[i].playerColour

\* C11: the colour to move depends only on the number k of logged moves: it
\* is black for k in {0, 2, 4, 5} and for every even k >= 8, and white for
\* k in {1, 3, 6} and for every odd k >= 7.
C11_ColourToMoveSchedule ==
    LET k == Len(curMoves)
    IN  /\ (k \in {0, 2, 4, 5} \/ (k >= 8 /\ k % 2 = 0))
                => colourToMove(gameState) = "black"
        /\ (k \in {1, 3, 6} \/ (k >= 7 /\ k % 2 = 1))
                => colourToMove(gameState) = "white"

\* C11 witness: a log of nine moves whose entries 4 to 9 were made by white,
\* black, black, (the seventh action), white and black, with white to move.
C11_Witness ==
    /\ Len(curMoves) = 9
    /\ curMoves[4].playerColour = "white"
    /\ curMoves[5].playerColour = "black"
    /\ curMoves[6].playerColour = "black"
    /\ curMoves[8].playerColour = "white"
    /\ curMoves[9].playerColour = "black"
    /\ isPlacement(curMoves[8])
    /\ isPlacement(curMoves[9])
    /\ colourToMove(gameState) = "white"

\* the target cells of the frame conditions: the cells a caller tries, a
\* neighbour of the centre in its row and the four corners
ProbeCells ==
    TryCells \cup {<<7, 8>>, <<0, 0>>, <<0, 14>>, <<14, 0>>, <<14, 14>>}

\* C12: a valid attemptPly(colour, row, column, position) returns a position
\* that differs from the given one in exactly two ways: the cell (row, column)
\* now holds the colour, and one placement move (colour, row, column, removed
\* false) is appended to the log; every other cell and every earlier log
\* entry is unchanged.
C12_PlyFrame ==
    \A playerColour \in Colours, cell \in ProbeCells :
        LET row == cell[1]
            column == cell[2]
            attempted == attemptPly(playerColour, row, column, gameState)
            newBoard == attempted.gameState.board
            newMoves == attempted.gameState.moves
        IN  attempted.valid =>
                /\ DOMAIN attempted = {"gameState", "valid"}
                /\ DOMAIN attempted.gameState = {"board", "moves"}
                /\ DOMAIN newBoard = DOMAIN curBoard
                /\ \A i \in DOMAIN curBoard \ {row} : newBoard[i] = curBoard[i]
                /\ DOMAIN newBoard[row] = DOMAIN curBoard[row]
                /\ \A j \in DOMAIN curBoard[row] \ {column} :
                        newBoard[row][j] = curBoard[row][j]
                /\ newBoard[row][column] = playerColour
                /\ curBoard[row][column] # playerColour
                /\ Len(newMoves) = Len(curMoves) + 1
                /\ \A i \in 1..Len(curMoves) : newMoves[i] = curMoves[i]
                /\ newMoves[Len(newMoves)] = [playerColour |-> playerColour,
                                              row |-> row,
                                              column |-> column,
                                              removed |-> FALSE]

\* C12 witness: the log holds a pass, the last logged move is a placement by
\* white off the diagonal, and a further placement would be accepted.
C12_Witness ==
    /\ Len(curMoves) >= 5
    /\ \E i \in 1..Len(curMoves) : curMoves[i].row = -1
    /\ isPlacement(curMoves[Len(curMoves)])
    /\ curMoves[Len(curMoves)].playerColour = "white"
    /\ curMoves[Len(curMoves)].row # curMoves[Len(curMoves)].column
    /\ at(curBoard, cellOf(curMoves[Len(curMoves)])) = "white"
    /\ \E playerColour \in Colours, cell \in TryCells :
            plyValid(playerColour, cell)

\* the cells of the attempts on a recorded game: the cells of the entries
\* that come next, a corner and the centre
AttemptCells ==
    {<<entry.row, entry.column>> :
        entry \in {e \in BookEntries(gameState) : e.row # -1}}
        \cup {<<0, 0>>, <<Length(curBoard) \div 2, Length(curBoard[0]) \div 2>>}

\* C13: no operation modifies the position it is given: after attemptPly,
\* attemptRemove, attemptPass, isMoveValid, checkWin or checkDraw the
\* caller's position holds what it held before the call, whether the call
\* accepted or rejected; and a rejected attempt returns valid = false and no
\* new position.
C13_GivenPositionUnchanged ==
    /\ \A playerColour \in Colours, cell \in AttemptCells :
        LET attempted == attemptPly(playerColour, cell[1], cell[2], gameState)
        IN  /\ isMoveValidGiven(playerColour, cell[1], cell[2], gameState)
                    = gameState
            /\ attemptPlyGiven(playerColour, cell[1], cell[2], gameState)
                    = gameState
            /\ ~attempted.valid => attempted = [valid |-> FALSE]
    /\ \A cell \in AttemptCells :
        LET attempted == attemptRemove(cell[1], cell[2], gameState)
        IN  /\ attemptRemoveGiven(cell[1], cell[2], gameState) = gameState
            /\ ~attempted.valid => attempted = [valid |-> FALSE]
    /\ \A playerColour \in Colours :
        LET attempted == attemptPass(playerColour, gameState)
        IN  /\ attemptPassGiven(playerColour, gameState) = gameState
            /\ ~attempted.valid => attempted = [valid |-> FALSE]
            /\ checkWinGiven(playerColour, gameState) = gameState
    /\ checkDrawGiven(gameState) = gameState

\* C13 witness: checkWin for white has retracted the last move on its copy
\* to find the double four just made, a placement is accepted here and a
\* placement of the other colour and a removal are rejected, and the position
\* is as it was.
C13_Witness ==
    /\ checkWin("white", gameState)
            = [threw |-> FALSE, valid |-> TRUE,
               reason |-> "Black makes double four."]
    /\ removeLastMove(gameState).gameState # gameState
    /\ checkWinGiven("white", gameState) = gameState
    /\ \E cell \in AttemptCells :
        /\ attemptPly("white", cell[1], cell[2], gameState).valid
        /\ ~attemptPly("black", cell[1], cell[2], gameState).valid
        /\ ~attemptRemove(cell[1], cell[2], gameState).valid
        /\ attemptPlyGiven("white", cell[1], cell[2], gameState) = gameState

\* the effect of one logged move on a board: a placement writes its colour,
\* a removal writes Removed, a pass writes nothing
applyMove(board, move) ==
    IF move.row = -1
    THEN board
    ELSE IF move.removed
    THEN [board EXCEPT ![move.row][move.column] = "removed"]
    ELSE [board EXCEPT ![move.row][move.column] = move.playerColour]

RECURSIVE foldMoves(_, _)
foldMoves(board, moves) ==
    IF moves = <<>>
    THEN board
    ELSE foldMoves(applyMove(board, Head(moves)), Tail(moves))

\* C14: in every reachable position the board equals the fold of the move
\* log over an empty board, where a placement writes its colour to its cell,
\* a removal writes Removed to its cell and a pass writes nothing.
C14_BoardIsFoldOfLog ==
    curBoard = foldMoves(createBoard(Width, Height, "null").board, curMoves)

\* C14 witness: the log holds the removal, a white placement on the cell of
\* the removed stone and a pass after it.
C14_Witness ==
    /\ Len(curMoves) = 9
    /\ curMoves[7].removed
    /\ isPlacement(curMoves[8])
    /\ cellOf(curMoves[8]) = cellOf(curMoves[7])
    /\ curMoves[9].row = -1
    /\ at(curBoard, cellOf(curMoves[7])) = "white"

\* C15 as the specification states it: the length of the move log equals
\* the number of accepted non-pass actions (placements and removals);
\* accepted passes are not counted.
C15_PassesNotCounted ==
    movesMade(gameState) = accepted.placements + accepted.removals

\* C15: the length of the move log equals the number of accepted actions of
\* every kind: placements, removals and passes; an accepted pass is logged
\* and counted like a placement.
C15_EveryAcceptedActionCounted ==
    /\ movesMade(gameState)
            = accepted.placements + accepted.removals + accepted.passes
    /\ accepted.passes
            = Cardinality({i \in 1..Len(curMoves) : curMoves[i].row = -1})

\* C15 witness: two passes, the removal and six placements were accepted.
C15_Witness ==
    /\ accepted.passes = 2
    /\ accepted.removals = 1
    /\ accepted.placements = 6
    /\ movesMade(gameState) = 9

\* the four directions of a line: along a row, along a column and along the
\* two diagonals
Directions == {<<0, 1>>, <<1, 0>>, <<1, 1>>, <<1, -1>>}

\* the cell steps cells away from cell in a direction
stepFrom(cell, direction, steps) ==
    <<cell[1] + steps * direction[1], cell[2] + steps * direction[2]>>

\* the cell is on the board and holds a stone of the colour
holds(board, playerColour, cell) ==
    /\ cell[1] \in DOMAIN board
    /\ cell[2] \in DOMAIN board[cell[1]]
    /\ board[cell[1]][cell[2]] = playerColour

\* some line holds length consecutive stones of the colour
hasRunOfAtLeast(board, playerColour, length) ==
    \E cell \in Cells(board), direction \in Directions :
        \A steps \in 0..(length - 1) :
            holds(board, playerColour, stepFrom(cell, direction, steps))

\* some line holds a maximal run of exactly length stones of the colour
hasMaximalRunOf(board, playerColour, length) ==
    \E cell \in Cells(board), direction \in Directions :
        /\ \A steps \in 0..(length - 1) :
                holds(board, playerColour, stepFrom(cell, direction, steps))
        /\ ~holds(board, playerColour, stepFrom(cell, direction, -1))
        /\ ~holds(board, playerColour, stepFrom(cell, direction, length))

\* C16: checkWin("black", position) is valid, with reason "5 in a row for
\* black.", if and only if some row, column or diagonal contains a maximal
\* run of exactly five consecutive black stones; a black run of six or more
\* never by itself makes it valid.
C16_BlackWinsWithExactlyFive ==
    LET checked == checkWin("black", gameState)
    IN  /\ ~checked.threw
        /\ checked.valid <=> hasMaximalRunOf(curBoard, "black", 5)
        /\ checked.valid => checked.reason = "5 in a row for black."

\* C17: checkWin("white", position) is valid with reason "5 or more in a row
\* for white." if and only if some row, column or diagonal contains five or
\* more consecutive white stones.
C17_WhiteWinsWithFiveOrMore ==
    LET checked == checkWin("white", gameState)
    IN  IF hasRunOfAtLeast(curBoard, "white", 5)
        THEN /\ ~checked.threw
             /\ checked.valid
             /\ checked.reason = "5 or more in a row for white."
        ELSE checked.threw
                \/ checked.reason # "5 or more in a row for white."

\* C17 witness: white holds six stones in a row but no seven, after a pass
\* of black, and checkWin("white") gives the reason of the claim.
C17_Witness ==
    /\ hasMaximalRunOf(curBoard, "white", 6)
    /\ curMoves[Len(curMoves)].row = -1
    /\ curMoves[Len(curMoves)].playerColour = "black"
    /\ checkWin("white", gameState).reason = "5 or more in a row for white."

\* C18: whenever some row, column or diagonal contains six or more
\* consecutive black stones, checkWin("white", position) is valid (with
\* reason "Black makes overline." when white has no run of five or more),
\* whether the overline was made by the last move or earlier.
C18_BlackOverlineWinsForWhite ==
    hasRunOfAtLeast(curBoard, "black", 6) =>
        LET checked == checkWin("white", gameState)
        IN  /\ ~checked.threw
            /\ checked.valid
            /\ ~hasRunOfAtLeast(curBoard, "white", 5)
                    => checked.reason = "Black makes overline."

\* C18 witness: black completed six in a row one move ago, white has
\* placed a stone since, and checkWin("white") reports the overline.
C18_Witness ==
    /\ hasRunOfAtLeast(curBoard, "black", 6)
    /\ isPlacement(curMoves[Len(curMoves)])
    /\ curMoves[Len(curMoves)].playerColour = "white"
    /\ ~hasRunOfAtLeast(curBoard, "white", 5)
    /\ checkWin("white", gameState).reason = "Black makes overline."

\* the board before the last logged move: the fold of the log without its
\* last entry
previousBoard ==
    foldMoves(createBoard(Length(curBoard[0]), Length(curBoard), "null").board,
              SubSeq(curMoves, 1, Len(curMoves) - 1))

\* checkWin("white") on the position is valid with the reason
validFor(reason) ==
    LET checked == checkWin("white", gameState)
    IN  /\ ~checked.threw
        /\ checked.valid
        /\ checked.reason = reason

\* a white run of five or more, or a black run of six or more
runReason ==
    \/ hasRunOfAtLeast(curBoard, "white", 5)
    \/ hasRunOfAtLeast(curBoard, "black", 6)

\* the cell lies on a maximal run of exactly length stones of the colour
\* along the direction
onMaximalRun(board, playerColour, cell, direction, length) ==
    \E offset \in 0..(length - 1) :
        LET start == stepFrom(cell, direction, -offset)
        IN  /\ \A steps \in 0..(length - 1) :
                    holds(board, playerColour, stepFrom(start, direction, steps))
            /\ ~holds(board, playerColour, stepFrom(start, direction, -1))
            /\ ~holds(board, playerColour, stepFrom(start, direction, length))

\* the last logged move is a stone of black that is the shared stone of two
\* maximal black runs of exactly length: the stone made both at once
lastStoneMakesTwo(length) ==
    /\ curMoves # <<>>
    /\ isPlacement(curMoves[Len(curMoves)])
    /\ curMoves[Len(curMoves)].playerColour = "black"
    /\ \E d1 \in Directions : \E d2 \in Directions \ {d1} :
        /\ onMaximalRun(curBoard, "black", cellOf(curMoves[Len(curMoves)]),
                        d1, length)
        /\ onMaximalRun(curBoard, "black", cellOf(curMoves[Len(curMoves)]),
                        d2, length)

\* white has placed a stone since the board before the last logged move
whitePlacedLast ==
    /\ curMoves # <<>>
    /\ isPlacement(curMoves[Len(curMoves)])
    /\ curMoves[Len(curMoves)].playerColour = "white"

\* C19: when black's last logged stone has made a double-three, two threes
\* that were not on the board before it, and no run reason applies and the
\* board holds no double-four, checkWin("white") is valid with reason "Black
\* makes double three."; when the board held a double-three before the last
\* logged move and white has placed a stone since, checkWin("white") does
\* not give that reason.
C19_NewDoubleThreeWins ==
    /\ (/\ lastStoneMakesTwo(3)
        /\ ~runReason
        /\ ~blackMakesDoubleFour(curBoard))
            => validFor("Black makes double three.")
    /\ (whitePlacedLast /\ blackMakesDoubleThree(previousBoard))
            => ~validFor("Black makes double three.")

\* C20: when black's last logged stone has made a double-four, two fours
\* that were not on the board before it, and no run reason applies,
\* checkWin("white") is valid with reason "Black makes double four."; when
\* the board held a double-four before the last logged move and white has
\* placed a stone since, checkWin("white") does not give that reason.
C20_NewDoubleFourWins ==
    /\ (lastStoneMakesTwo(4) /\ ~runReason)
            => validFor("Black makes double four.")
    /\ (whitePlacedLast /\ blackMakesDoubleFour(previousBoard))
            => ~validFor("Black makes double four.")

\* what holds of the two reasons: the first double-three on a board, one made
\* by the last logged move on a board that held none, gives the reason when
\* nothing of higher priority applies, and a board that held a double-three
\* before the last logged move never gives it; the same for the double-four.
FirstDoubleWins ==
    LET threeBefore == curMoves # <<>> /\ blackMakesDoubleThree(previousBoard)
        fourBefore == curMoves # <<>> /\ blackMakesDoubleFour(previousBoard)
        firstThree == /\ curMoves # <<>>
                      /\ blackMakesDoubleThree(curBoard)
                      /\ ~threeBefore
        firstFour == /\ curMoves # <<>>
                     /\ blackMakesDoubleFour(curBoard)
                     /\ ~fourBefore
    IN  /\ (firstFour /\ ~runReason) => validFor("Black makes double four.")
        /\ (firstThree /\ ~runReason /\ ~firstFour)
                => validFor("Black makes double three.")
        /\ fourBefore => ~validFor("Black makes double four.")
        /\ threeBefore => ~validFor("Black makes double three.")

\* the first double-three and the first double-four of a game, each made at
\* once by black's last stone, give their reasons
FirstDoubleThreeAtOnce ==
    /\ lastStoneMakesTwo(3)
    /\ ~blackMakesDoubleThree(previousBoard)
    /\ validFor("Black makes double three.")

FirstDoubleFourAtOnce ==
    /\ lastStoneMakesTwo(4)
    /\ ~blackMakesDoubleFour(previousBoard)
    /\ validFor("Black makes double four.")

\* a second double-three: the last logged move is black's stone at (6,2),
\* the shared stone of a maximal run of three in column 2 and one in row 6
\* with both ends of each free, on a board that has held the double-three
\* around (4,6) for ten entries; checkWin("white") finds nothing
SecondDoubleThree ==
    /\ Len(curMoves) = 21
    /\ curMoves[21] = stone("black", 6, 2)
    /\ lastStoneMakesTwo(3)
    /\ \A cell \in {<<4, 2>>, <<8, 2>>, <<6, 0>>, <<6, 4>>} :
            at(curBoard, cell) = "null"
    /\ blackMakesDoubleThree(previousBoard)
    /\ ~runReason
    /\ ~blackMakesDoubleFour(curBoard)
    /\ checkWin("white", gameState)
            = [threw |-> FALSE, valid |-> FALSE,
               reason |-> "No winning moves for white."]

\* a second double-four: the last logged move is black's stone at (7,2), the
\* shared stone of a maximal run of four in column 2 and one in row 7, on a
\* board that has held the double-four around (4,6) for fourteen entries;
\* checkWin("white") finds nothing
SecondDoubleFour ==
    /\ Len(curMoves) = 29
    /\ curMoves[29] = stone("black", 7, 2)
    /\ lastStoneMakesTwo(4)
    /\ at(curBoard, <<4, 2>>) = "null"
    /\ at(curBoard, <<7, 4>>) = "null"
    /\ blackMakesDoubleFour(previousBoard)
    /\ ~runReason
    /\ checkWin("white", gameState)
            = [threw |-> FALSE, valid |-> FALSE,
               reason |-> "No winning moves for white."]

\* the reason the order of the white-win conditions gives for the position:
\* a white run of five or more, a black run of six or more, a double four
\* on the board that the board before the last logged move did not hold, a
\* double three likewise, and none of them
firstReason ==
    IF hasRunOfAtLeast(curBoard, "white", 5)
    THEN "5 or more in a row for white."
    ELSE IF hasRunOfAtLeast(curBoard, "black", 6)
    THEN "Black makes overline."
    ELSE IF /\ curMoves # <<>>
            /\ blackMakesDoubleFour(curBoard)
            /\ ~blackMakesDoubleFour(previousBoard)
    THEN "Black makes double four."
    ELSE IF /\ curMoves # <<>>
            /\ blackMakesDoubleThree(curBoard)
            /\ ~blackMakesDoubleThree(previousBoard)
    THEN "Black makes double three."
    ELSE "No winning moves for white."

\* C21: checkWin("white") returns the reason of the first condition that
\* holds in the order white five-or-more, black overline, black double-four
\* just made, black double-three just made, and is valid with it; when none
\* holds it returns invalid with reason "No winning moves for white.".
C21_FirstReasonInOrder ==
    LET checked == checkWin("white", gameState)
    IN  /\ ~checked.threw
        /\ checked.reason = firstReason
        /\ checked.valid <=> firstReason # "No winning moves for white."

\* what holds of the order: a call of checkWin("white") that returns gives
\* the first reason in the order
ReasonInOrderWhenReturned ==
    LET checked == checkWin("white", gameState)
    IN  ~checked.threw =>
            /\ checked.reason = firstReason
            /\ checked.valid <=> firstReason # "No winning moves for white."

\* white passed after black made a double three, no run reason applies,
\* and checkWin("white") throws
PassAfterDoubleThree ==
    /\ Len(curMoves) = 12
    /\ curMoves[12] = pass("white")
    /\ blackMakesDoubleThree(curBoard)
    /\ ~blackMakesDoubleFour(curBoard)
    /\ ~runReason
    /\ checkWin("white", gameState) = [threw |-> TRUE]

\* no cell of the board is Empty
noEmptyCell == \A cell \in Cells(curBoard) : at(curBoard, cell) # "null"

\* the last two logged moves are passes
lastTwoPasses ==
    /\ Len(curMoves) >= 2
    /\ curMoves[Len(curMoves)] = pass(curMoves[Len(curMoves)].playerColour)
    /\ curMoves[Len(curMoves) - 1]
            = pass(curMoves[Len(curMoves) - 1].playerColour)

\* C22: checkDraw is valid if and only if at least 3 moves are logged and
\* either no cell is Empty (a Removed cell counts as occupied) or the last
\* two logged moves are passes; with fewer than 3 logged moves it is
\* invalid; on a full board the reason is the board-full one even when the
\* last two moves are passes.
C22_DrawConditions ==
    LET checked == checkDraw(gameState)
    IN  /\ checked.valid <=>
                (Len(curMoves) >= 3 /\ (noEmptyCell \/ lastTwoPasses))
        /\ Len(curMoves) < 3 => ~checked.valid
        /\ (Len(curMoves) >= 3 /\ noEmptyCell)
                => checked.reason = "The board is full."
        /\ (Len(curMoves) >= 3 /\ ~noEmptyCell /\ lastTwoPasses)
                => checked.reason = "The last two moves were passes."

\* C22 witness: the board has no Empty cell and still holds the Removed
\* cell, the last move is a stone, and checkDraw gives the board-full reason.
C22_Witness ==
    /\ noEmptyCell
    /\ \E cell \in Cells(curBoard) : at(curBoard, cell) = "removed"
    /\ isPlacement(curMoves[Len(curMoves)])
    /\ checkDraw(gameState) = [valid |-> TRUE, reason |-> "The board is full."]

\* the board is full and the last two moves are passes: the reason is the
\* board-full one
FullBoardAndTwoPasses ==
    /\ noEmptyCell
    /\ lastTwoPasses
    /\ checkDraw(gameState) = [valid |-> TRUE, reason |-> "The board is full."]

\* two passes on a board with Empty cells, the first of them the fourth move
TwoPassesEarly ==
    /\ Len(curMoves) = 5
    /\ lastTwoPasses
    /\ ~noEmptyCell
    /\ checkDraw(gameState)
            = [valid |-> TRUE, reason |-> "The last two moves were passes."]

\* C23: in every reachable position with at least 6 logged moves the colours
\* recorded for the first six log entries are black, white, black, white,
\* black, black, whether the entries are placements or passes.
C23_OpeningColours ==
    Len(curMoves) >= 6 =>
        [i \in 1..6 |-> curMoves[i].playerColour]
            = <<"black", "white", "black", "white", "black", "black">>

\* C23 witness: six moves are logged, the fourth and the sixth are passes
\* and the fifth is a stone.
C23_Witness ==
    /\ Len(curMoves) >= 6
    /\ curMoves[4].row = -1
    /\ isPlacement(curMoves[5])
    /\ curMoves[6].row = -1

\* C24: in every reachable position with at least one logged move the
\* centre cell of the board holds a black stone.
C24_CentreStaysBlack ==
    Len(curMoves) >= 1 => at(curBoard, Centre) = "black"

\* C24 witness: a stone has been removed, a stone has been placed since,
\* and a stone of the colour to move is rejected on the centre cell.
C24_Witness ==
    /\ Len(curMoves) >= 8
    /\ \E i \in 1..Len(curMoves) : curMoves[i].removed
    /\ isPlacement(curMoves[Len(curMoves)])
    /\ ~attemptPly(colourToMove(gameState), Centre[1], Centre[2], gameState).valid
    /\ at(curBoard, Centre) = "black"

\* C25: any two consecutive log entries at 0-based indices 6 and above
\* have different recorded colours.
C25_AlternationFromSeventh ==
    \A i \in 7..(Len(curMoves) - 1) :
        curMoves[i].playerColour # curMoves[i + 1].playerColour

\* what holds of the colours from the seventh entry on: they alternate
\* when the seventh entry is the removal
AlternationAfterRemoval ==
    (Len(curMoves) >= 7 /\ curMoves[7].removed) =>
        \A i \in 7..(Len(curMoves) - 1) :
            curMoves[i].playerColour # curMoves[i + 1].playerColour

\* C26: in every reachable position checkWin("black") and checkWin("white")
\* are never both valid.
C26_AtMostOneWinner ==
    LET black == checkWin("black", gameState)
        white == checkWin("white", gameState)
    IN  ~(black.valid /\ ~white.threw /\ white.valid)

\* black's last stone completes five in row 4; neither colour had a
\* winning configuration before it, and both have one after it
FiveAndDoubleThreeAtOnce ==
    /\ Len(curMoves) = 15
    /\ curMoves[15] = stone("black", 4, 2)
    /\ hasMaximalRunOf(curBoard, "black", 5)
    /\ ~hasRunOfAtLeast(previousBoard, "black", 5)
    /\ ~blackMakesDoubleThree(previousBoard)
    /\ ~hasRunOfAtLeast(curBoard, "white", 5)
    /\ checkWin("black", gameState)
            = [threw |-> FALSE, valid |-> TRUE,
               reason |-> "5 in a row for black."]
    /\ checkWin("white", gameState)
            = [threw |-> FALSE, valid |-> TRUE,
               reason |-> "Black makes double three."]

(***************************************************************************)
(* The attempts as a caller sees them: a call either returns a result or   *)
(* throws.  board[row] is undefined for a row outside the board and        *)
(* reading or writing a cell of it throws a TypeError; board[row][column]  *)
(* for a column outside the row is undefined, which is a value.            *)
(***************************************************************************)
passTarget == <<-1, -1>>

\* isMoveValid reads board[row][column] before anything else
attemptPlyCall(playerColour, row, column, gs) ==
    IF row \notin DOMAIN gs.board
    THEN [threw |-> TRUE]
    ELSE IF column \notin DOMAIN gs.board[row]
    THEN [threw |-> FALSE, valid |-> FALSE]
    ELSE [threw |-> FALSE,
          valid |-> attemptPly(playerColour, row, column, gs).valid]

\* attemptRemove compares the target with the last two moves of a log of
\* six, pushes the removal, and then writes board[row][column]
attemptRemoveCall(row, column, gs) ==
    LET moves == gs.moves
        matched ==
            \/ (moves[6].row = row /\ moves[6].column = column)
            \/ (moves[5].row = row /\ moves[5].column = column)
    IN  IF movesMade(gs) # 6
        THEN [threw |-> FALSE, valid |-> FALSE]
        ELSE IF ~matched
        THEN [threw |-> FALSE, valid |-> FALSE]
        ELSE IF row \notin DOMAIN gs.board
        THEN [threw |-> TRUE]
        ELSE [threw |-> FALSE,
              valid |-> attemptRemove(row, column, gs).valid]

\* attemptPass reads the log only
attemptPassCall(playerColour, gs) ==
    [threw |-> FALSE, valid |-> attemptPass(playerColour, gs).valid]

returnsValid(called) == ~called.threw /\ called.valid \in BOOLEAN

\* C27: for every reachable position, every colour and every target that is
\* an on-board cell or the pass coordinate (-1,-1), attemptPly, attemptRemove
\* and attemptPass return a result with a boolean valid flag and never
\* throw, attemptRemove on a position with six logged moves whose 5th or 6th
\* entry is a pass included.
C27_AttemptsReturnValid ==
    /\ \A playerColour \in Colours, cell \in ProbeCells \cup {passTarget} :
            returnsValid(attemptPlyCall(playerColour, cell[1], cell[2],
                                        gameState))
    /\ \A cell \in ProbeCells \cup {passTarget} :
            returnsValid(attemptRemoveCall(cell[1], cell[2], gameState))
    /\ \A playerColour \in Colours :
            returnsValid(attemptPassCall(playerColour, gameState))

\* six moves are logged, the 5th or the 6th is a pass, and attemptRemove on
\* the pass coordinate throws
RemovalOfPassThrows ==
    /\ movesMade(gameState) = 6
    /\ \E i \in {5, 6} : ~isPlacement(curMoves[i])
    /\ attemptRemoveCall(-1, -1, gameState) = [threw |-> TRUE]

\* what holds: the attempts on the cells of the board return a result with
\* a boolean valid flag, and so do attemptPass and attemptRemove on the
\* pass coordinate when no pass is among the 5th and 6th entries of six
AttemptsOnBoardReturnValid ==
    /\ \A playerColour \in Colours, cell \in ProbeCells :
            returnsValid(attemptPlyCall(playerColour, cell[1], cell[2],
                                        gameState))
    /\ \A cell \in ProbeCells :
            returnsValid(attemptRemoveCall(cell[1], cell[2], gameState))
    /\ \A playerColour \in Colours :
            returnsValid(attemptPassCall(playerColour, gameState))
    /\ (\/ movesMade(gameState) # 6
        \/ \A i \in {5, 6} : isPlacement(curMoves[i]))
            => returnsValid(attemptRemoveCall(-1, -1, gameState))
    /\ \A playerColour \in Colours :
            attemptPlyCall(playerColour, -1, -1, gameState) = [threw |-> TRUE]

(***************************************************************************)
(* Starting games: a caller asks initiateGame for a position of the given  *)
(* dimensions, or of the default ones, and holds the position it returns;  *)
(* when the call throws the caller keeps the position it had.              *)
(***************************************************************************)
\* largest dimension asked for
MaxSide == 10

InitiateGame(width, height) ==
    LET initiated == initiateGame(width, height, "null")
    IN  /\ returned' = [call |-> "initiateGame",
                        width |-> width,
                        height |-> height,
                        result |-> initiated]
        /\ gameState' = IF initiated.threw
                        THEN gameState
                        ELSE initiated.gameState
        /\ accepted' = IF initiated.threw THEN accepted ELSE noneAccepted
        /\ UNCHANGED paused

\* initiateGame() with no argument takes the default dimensions
InitiateGameDefault ==
    LET initiated == initiateGame(Width, Height, "null")
    IN  /\ returned' = [call |-> "initiateGame",
                        width |-> Width,
                        height |-> Height,
                        result |-> initiated]
        /\ gameState' = IF initiated.threw
                        THEN gameState
                        ELSE initiated.gameState
        /\ accepted' = IF initiated.threw THEN accepted ELSE noneAccepted
        /\ UNCHANGED paused

NextInitiate ==
    \/ \E width \in 1..MaxSide, height \in 1..MaxSide :
            InitiateGame(width, height)
    \/ InitiateGameDefault

SpecInitiate == Init /\ [][NextInitiate]_vars

\* C28: initiateGame(width, height) fails if and only if width or height is
\* even; for odd dimensions it returns a position in which every cell is
\* Empty and the move log is empty (the default dimensions are 15 by 15).
C28_InitiateGameFailsIffEven ==
    returned.call = "initiateGame" =>
        LET result == returned.result
            even(number) == \E k \in 0..number : number = 2 * k
        IN  /\ result.threw <=> (even(returned.width) \/ even(returned.height))
            /\ ~result.threw =>
                    /\ result.gameState.moves = <<>>
                    /\ DOMAIN result.gameState.board
                            = 0..(returned.width - 1)
                    /\ \A i \in DOMAIN result.gameState.board :
                            /\ DOMAIN result.gameState.board[i]
                                    = 0..(returned.height - 1)
                            /\ \A j \in DOMAIN result.gameState.board[i] :
                                    result.gameState.board[i][j] = "null"
                    /\ gameState = result.gameState

\* a board of three rows and five columns has been returned
C28_Witness ==
    /\ returned.call = "initiateGame"
    /\ returned.width = 3
    /\ returned.height = 5
    /\ ~returned.result.threw
    /\ Length(gameState.board) = 3
    /\ Length(gameState.board[0]) = 5

\* the call with an odd width and an even height threw, and the caller
\* holds the position it had
EvenHeightThrew ==
    /\ returned.call = "initiateGame"
    /\ returned.width = 3
    /\ returned.height = 4
    /\ returned.result = [threw |-> TRUE]
    /\ Length(gameState.board) = 15

\* the call with the default dimensions returned an empty 15 by 15 position
DefaultReturned ==
    /\ returned.call = "initiateGame"
    /\ returned.width = 15
    /\ ~returned.result.threw
    /\ returned.result.gameState
            = [board |-> [i \in 0..14 |-> [j \in 0..14 |-> "null"]],
               moves |-> <<>>]

(***************************************************************************)
(* Scanning: totalNumberOfTouchingPieces is asked with a colour and a      *)
(* board, and what it returns is recorded with its arguments.  The boards  *)
(* asked are those of a few shapes that hold up to ScanStones stones of    *)
(* the colour; the other cells are empty when black is scanned and hold    *)
(* black stones when white is scanned.                                     *)
(***************************************************************************)
\* most stones of the scanned colour on a scanned board
ScanStones == 4

\* rows and columns of the scanned boards
ScanShapes == {<<1, 5>>, <<3, 3>>, <<3, 5>>, <<5, 3>>}

shapeCells(shape) == (0..(shape[1] - 1)) \X (0..(shape[2] - 1))

\* the sets of at most number elements of a set
RECURSIVE subsetsUpTo(_, _)
subsetsUpTo(set, number) ==
    IF number = 0 \/ set = {}
    THEN {{}}
    ELSE LET element == CHOOSE e \in set : TRUE
             without == subsetsUpTo(set \ {element}, number)
             with == subsetsUpTo(set \ {element}, number - 1)
         IN  without \cup {rest \cup {element} : rest \in with}

boardOf(shape, stones, playerColour, filler) ==
    [i \in 0..(shape[1] - 1) |->
        [j \in 0..(shape[2] - 1) |->
            IF <<i, j>> \in stones THEN playerColour ELSE filler]]

fillerFor(playerColour) == IF playerColour = "black" THEN "null" ELSE "black"

ScanBoards(playerColour) ==
    UNION {{boardOf(shape, stones, playerColour, fillerFor(playerColour)) :
                stones \in subsetsUpTo(shapeCells(shape), ScanStones)} :
           shape \in ScanShapes}

InitScan ==
    /\ gameState = initiateGame(Width, Height, "null").gameState
    /\ accepted = noneAccepted
    /\ paused = FALSE
    /\ \E playerColour \in Colours :
            \E board \in ScanBoards(playerColour) :
                returned = [call |-> "asked",
                            playerColour |-> playerColour,
                            board |-> board]

Scan ==
    /\ returned.call = "asked"
    /\ returned' = [call |-> "totalNumberOfTouchingPieces",
                    playerColour |-> returned.playerColour,
                    board |-> returned.board,
                    result |-> totalNumberOfTouchingPieces(
                                   returned.playerColour, returned.board)]
    /\ UNCHANGED <<gameState, accepted, paused>>

SpecScan == InitScan /\ [][Scan]_vars

onBoard(board, cell) ==
    cell[1] \in DOMAIN board /\ cell[2] \in DOMAIN board[cell[1]]

\* the lines of a board: a first cell, which has no cell of the board before
\* it in the direction, and the direction
Lines(board) ==
    {line \in Cells(board) \X Directions :
        ~onBoard(board, stepFrom(line[1], line[2], -1))}

\* the line holds length consecutive cells of the colour, the first of them
\* steps cells after the first cell of the line
runAt(board, playerColour, line, steps, length) ==
    \A k \in 0..(length - 1) :
        holds(board, playerColour, stepFrom(line[1], line[2], steps + k))

lineHasRun(board, playerColour, line, length) ==
    \E steps \in 0..(Length(board) + Length(board[0])) :
        /\ onBoard(board, stepFrom(line[1], line[2], steps))
        /\ runAt(board, playerColour, line, steps, length)

\* the number of cells of the longest run of the colour in the line
longestRun(board, playerColour, line) ==
    CHOOSE length \in 0..(Length(board) + Length(board[0])) :
        /\ lineHasRun(board, playerColour, line, length)
        /\ ~lineHasRun(board, playerColour, line, length + 1)

\* C29: for every board and colour the result of the scanner contains a
\* length L >= 2 if and only if some line among all rows, all columns and
\* all diagonals of both directions has a longest run of that colour of
\* exactly L consecutive cells; every line is scanned as one contiguous
\* sequence of adjacent cells, so the result holds L once for each such line
\* and nothing else.
C29_ScannerFindsLongestRuns ==
    returned.call = "totalNumberOfTouchingPieces" =>
        LET board == returned.board
            result == returned.result
            runs == [line \in Lines(board) |->
                        longestRun(board, returned.playerColour, line)]
            found == {runs[line] : line \in Lines(board)} \ {0, 1}
        IN  /\ {result[k] : k \in DOMAIN result} = found
            /\ \A length \in found :
                    Cardinality({k \in DOMAIN result : result[k] = length})
                        = Cardinality({line \in Lines(board) :
                                            runs[line] = length})

\* a board of three rows and five columns has been scanned that holds a
\* diagonal run of three, a row and a column with a run of two, and the
\* result holds one three and two twos
C29_Witness ==
    /\ returned.call = "totalNumberOfTouchingPieces"
    /\ returned.playerColour = "black"
    /\ returned.board
            = boardOf(<<3, 5>>, {<<0, 0>>, <<1, 1>>, <<2, 2>>, <<0, 1>>},
                      "black", "null")
    /\ Len(returned.result) = 3
    /\ Cardinality({k \in DOMAIN returned.result : returned.result[k] = 3}) = 1
    /\ Cardinality({k \in DOMAIN returned.result : returned.result[k] = 2}) = 2

\* a row with two runs has been scanned: the result holds the longer only
TwoRunsInOneRow ==
    /\ returned.call = "totalNumberOfTouchingPieces"
    /\ returned.board
            = boardOf(<<1, 5>>, {<<0, 0>>, <<0, 2>>, <<0, 3>>, <<0, 4>>},
                      "white", "black")
    /\ returned.playerColour = "white"
    /\ returned.result = <<3>>

\* the cells of the board at most radius rows and columns away from a cell,
\* as a board; the cells outside the board are empty
windowAround(board, centre, radius) ==
    [a \in 0..(2 * radius) |->
        [b \in 0..(2 * radius) |->
            LET cell == <<centre[1] - radius + a, centre[2] - radius + b>>
            IN  IF onBoard(board, cell) THEN at(board, cell) ELSE "null"]]

\* the lines of a window whose longest black run has exactly length cells
linesWithRun(window, length) ==
    {line \in Lines(window) : longestRun(window, "black", line) = length}

\* some window holds black runs of exactly length cells on two axes
runsOnTwoAxes(board, radius, length) ==
    \E centre \in Cells(board) :
        LET found == linesWithRun(Copy(windowAround(board, centre, radius)),
                                  length)
        IN  \E line1 \in found : \E line2 \in found : line1[2] # line2[2]

\* some window holds black runs of exactly length cells on two lines
runsOnTwoLines(board, radius, length) ==
    \E centre \in Cells(board) :
        Cardinality(linesWithRun(Copy(windowAround(board, centre, radius)),
                                 length)) >= 2

\* C30: the double-three (double-four) detector is true only if some cell's
\* window of radius 2 (radius 3) contains black runs of exactly 3 (exactly 4)
\* on at least two distinct axes among horizontal, vertical and the two
\* diagonals; two runs on parallel lines of one axis do not make a double.
C30_DoubleNeedsTwoAxes ==
    /\ blackMakesDoubleThree(curBoard) => runsOnTwoAxes(curBoard, 2, 3)
    /\ blackMakesDoubleFour(curBoard) => runsOnTwoAxes(curBoard, 3, 4)

\* black holds threes in rows 4 and 5 and no three on any other axis: the
\* detector is true and checkWin gives the game to white
ParallelThreesTaken ==
    /\ Len(curMoves) = 13
    /\ curMoves[13] = stone("black", 5, 6)
    /\ blackMakesDoubleThree(curBoard)
    /\ ~runsOnTwoAxes(curBoard, 2, 3)
    /\ checkWin("white", gameState)
            = [threw |-> FALSE, valid |-> TRUE,
               reason |-> "Black makes double three."]

\* what holds: a detector that is true has a window with runs of its length
\* on two lines
DoubleNeedsTwoLines ==
    /\ blackMakesDoubleThree(curBoard) => runsOnTwoLines(curBoard, 2, 3)
    /\ blackMakesDoubleFour(curBoard) => runsOnTwoLines(curBoard, 3, 4)

\* the cell of the board that a cell of the window around centre shows
boardCell(centre, radius, cell) ==
    <<centre[1] - radius + cell[1], centre[2] - radius + cell[2]>>

\* the line of the window holds a run of length black cells that is, on the
\* board, a maximal run of exactly length black stones
showsMaximalRun(board, centre, radius, window, line, length) ==
    \E steps \in 0..(2 * radius) :
        /\ onBoard(window, stepFrom(line[1], line[2], steps))
        /\ runAt(window, "black", line, steps, length)
        /\ LET first == boardCell(centre, radius,
                                  stepFrom(line[1], line[2], steps))
           IN  /\ ~holds(board, "black", stepFrom(first, line[2], -1))
               /\ ~holds(board, "black", stepFrom(first, line[2], length))

\* the lines that the detector counts in the window around a black stone
\* and that show a maximal run of the board
maximalRunLines(board, centre, radius, length) ==
    LET window == Copy(windowAround(board, centre, radius))
    IN  {line \in linesWithRun(window, length) :
            showsMaximalRun(board, centre, radius, window, line, length)}

\* some window around a black stone holds two lines that show maximal runs
\* of the board of exactly length stones
maximalRunsOnTwoLines(board, radius, length) ==
    \E centre \in Cells(board) :
        /\ at(board, centre) = "black"
        /\ Cardinality(maximalRunLines(board, centre, radius, length)) >= 2

\* C31: every run that the double-three (double-four) detector counts is a
\* maximal black run of exactly 3 (exactly 4) stones on the full board, a
\* longer run cut by the border of a window never being counted: so a
\* detector that is true has a window with two lines that show such runs.
C31_CountedRunsAreMaximal ==
    /\ blackMakesDoubleThree(curBoard) => maximalRunsOnTwoLines(curBoard, 2, 3)
    /\ blackMakesDoubleFour(curBoard) => maximalRunsOnTwoLines(curBoard, 3, 4)

\* black holds five in row 4 and three in column 2, crossing at (4,2): the
\* window around (4,2) shows three stones of the five, the detector is true
\* and no window shows two maximal runs of three
CutFiveCountedAsThree ==
    /\ Len(curMoves) = 15
    /\ curMoves[15] = stone("black", 4, 2)
    /\ \A column \in 2..6 : curBoard[4][column] = "black"
    /\ longestRun(Copy(windowAround(curBoard, <<4, 2>>, 2)), "black",
                  <<<<2, 0>>, <<0, 1>>>>) = 3
    /\ blackMakesDoubleThree(curBoard)
    /\ ~maximalRunsOnTwoLines(curBoard, 2, 3)

\* the board with every cell that holds no black stone holding the filler
refill(board, filler) ==
    [i \in DOMAIN board |->
        [j \in DOMAIN board[i] |->
            IF board[i][j] = "black" THEN "black" ELSE filler]]

\* C32: the double-three and double-four detectors depend only on the set of
\* cells holding black stones: the board itself and the boards with the same
\* black cells and every other cell empty, white or removed give the same
\* results.
C32_DetectorsReadBlackOnly ==
    \A filler \in {"null", "white", "removed"} :
        LET other == Copy(refill(curBoard, filler))
        IN  /\ blackMakesDoubleThree(other) = blackMakesDoubleThree(curBoard)
            /\ blackMakesDoubleFour(other) = blackMakesDoubleFour(curBoard)

\* black holds a three in row 0 with a white stone at its end and a three
\* in row 2, a cell is removed, and the detector is true
C32_Witness ==
    /\ Len(curMoves) = 13
    /\ curBoard[0][0] = "white"
    /\ \A column \in 1..3 : curBoard[0][column] = "black"
    /\ curBoard[4][0] = "removed"
    /\ blackMakesDoubleThree(curBoard)
    /\ blackMakesDoubleThree(refill(curBoard, "white"))
    /\ refill(curBoard, "white") # curBoard

(***************************************************************************)
(* The opening: a caller tries a stone of either colour on every cell of   *)
(* the small board until OpeningMoves stones are placed.                   *)
(***************************************************************************)
\* moves of the opening explored
OpeningMoves == 3

NextOpening ==
    \E playerColour \in Colours, cell \in Cells(gameState.board) :
        /\ movesMade(gameState) < OpeningMoves
        /\ AttemptPly(playerColour, cell[1], cell[2])

SpecOpening == InitSmall /\ [][NextOpening]_vars

emptyCells(board) == {cell \in Cells(board) : at(board, cell) = "null"}

\* the eight cells next to the centre of the board
aroundCentre(board) ==
    LET middle == <<half(Length(board)), half(Length(board[0]))>>
    IN  {cell \in Cells(board) :
            /\ cell # middle
            /\ Abs(cell[1] - middle[1]) <= 1
            /\ Abs(cell[2] - middle[2]) <= 1}

\* C33: in every position with exactly two logged moves (black on the
\* centre, white on any of the eight cells around it) and for every
\* candidate cell, the search of the move-3 check ends after at most four
\* rotations of the board, in an orientation in which the white stone is
\* directly above the centre or diagonally next to it: no search ends
\* without a match.
C33_SearchEndsWithinFourRotations ==
    movesMade(gameState) = 2 =>
        \A cell \in emptyCells(curBoard) :
            LET s == checkMoveThreeSearch("black", cell[1], cell[2], curBoard)
                middleRow == half(Length(curBoard))
                middleColumn == half(Length(curBoard[0]))
            IN  /\ ~s.diverges
                /\ s.rotations <= 4
                /\ s.cellAboveMiddle = "white" \/ s.cellAccrossMiddle = "white"
                /\ s.cellAboveMiddle = "white"
                        => s.newBoard[middleRow - 1][middleColumn] = "white"
                /\ s.cellAboveMiddle # "white"
                        => s.newBoard[middleRow - 1][middleColumn + 1] = "white"

\* white stands above and to the right of the centre: the search takes four
\* rotations
C33_Witness ==
    /\ movesMade(gameState) = 2
    /\ curBoard[3][5] = "white"
    /\ \A cell \in emptyCells(curBoard) :
            checkMoveThreeSearch("black", cell[1], cell[2], curBoard).rotations
                = 4

\* the cell a quarter turn about the centre of a square board brings a cell to
quarterTurn(board, cell) == <<cell[2], Length(board) - 1 - cell[1]>>

\* the cells on which a black stone is accepted
legalBlackCells(gs) ==
    {cell \in emptyCells(gs.board) :
        attemptPly("black", cell[1], cell[2], gs).valid}

\* the position of two moves with the white stone a quarter turn further
quarterTurned(gs) ==
    LET started == initiateGame(Length(gs.board), Length(gs.board[0]), "null")
        first == attemptPly("black", gs.moves[1].row, gs.moves[1].column,
                            started.gameState)
        turned == quarterTurn(gs.board, <<gs.moves[2].row, gs.moves[2].column>>)
    IN  attemptPly("white", turned[1], turned[2], first.gameState)

\* C34: the move-3 rule is equivariant under a quarter turn about the
\* centre: for each of the eight cells of white's second move black has
\* exactly 13 legal cells for the third, and with the white stone a quarter
\* turn further the legal cells are the same cells a quarter turn further.
C34_MoveThreeTurnsWithWhite ==
    movesMade(gameState) = 2 =>
        /\ <<curMoves[2].row, curMoves[2].column>> \in aroundCentre(curBoard)
        /\ Cardinality(legalBlackCells(gameState)) = 13
        /\ quarterTurned(gameState).valid
        /\ legalBlackCells(quarterTurned(gameState).gameState)
                = {quarterTurn(curBoard, cell) :
                        cell \in legalBlackCells(gameState)}

\* white stands above and to the left of the centre and black has 13 legal
\* cells; a quarter turn further white stands above and to the right, and
\* the legal cells are other cells
C34_Witness ==
    /\ movesMade(gameState) = 2
    /\ curBoard[3][3] = "white"
    /\ Cardinality(legalBlackCells(gameState)) = 13
    /\ quarterTurned(gameState).gameState.board[3][5] = "white"
    /\ legalBlackCells(quarterTurned(gameState).gameState)
            # legalBlackCells(gameState)

(***************************************************************************)
(* First moves: a game is started on a board of any odd dimensions up to   *)
(* MaxSide, and a caller tries a stone of either colour on every cell for  *)
(* the first FirstMoves moves.                                             *)
(***************************************************************************)
\* moves explored on the boards of all dimensions
FirstMoves == 2

InitFirst ==
    /\ \E width \in 1..MaxSide, height \in 1..MaxSide :
            /\ ~initiateGame(width, height, "null").threw
            /\ gameState = initiateGame(width, height, "null").gameState
    /\ accepted = noneAccepted
    /\ returned = noneReturned
    /\ paused = FALSE

NextFirst ==
    \E playerColour \in Colours, cell \in Cells(gameState.board) :
        /\ movesMade(gameState) < FirstMoves
        /\ AttemptPly(playerColour, cell[1], cell[2])

SpecFirst == InitFirst /\ [][NextFirst]_vars

\* the geometric centre of a board of R rows and C columns
geometricCentre(board) == <<Length(board) \div 2, Length(board[0]) \div 2>>

\* the cells on which a stone of some colour is accepted
acceptedCells(gs) ==
    {cell \in Cells(gs.board) :
        \E playerColour \in Colours :
            attemptPly(playerColour, cell[1], cell[2], gs).valid}

\* C35: for every pair of odd board dimensions, non-square boards included,
\* the only cell where move 1 is accepted is the geometric centre
\* board[floor(R/2)][floor(C/2)] of the board of R rows and C columns, the
\* cell that holds the black centre stone afterwards.
C35_FirstMoveOnGeometricCentre ==
    /\ movesMade(gameState) = 0
            => acceptedCells(gameState) = {geometricCentre(curBoard)}
    /\ movesMade(gameState) > 0
            => at(curBoard, geometricCentre(curBoard)) = "black"

\* on the board of three rows and five columns the first stone stands on
\* (2,1), and the centre (1,2) is free
FirstMoveOffCentre ==
    /\ Length(curBoard) = 3
    /\ Length(curBoard[0]) = 5
    /\ curMoves = <<stone("black", 2, 1)>>
    /\ curBoard[1][2] = "null"

\* what holds: on a square board move 1 is accepted on the centre only, and
\* on any board it is accepted on the cell whose row is half the number of
\* columns and whose column is half the number of rows, if there is one
FirstMoveOnTransposedCentre ==
    LET transposed == <<half(Length(curBoard[0])), half(Length(curBoard))>>
    IN  /\ movesMade(gameState) = 0
            => acceptedCells(gameState) = {transposed} \cap Cells(curBoard)
        /\ movesMade(gameState) > 0 /\ Length(curBoard) = Length(curBoard[0])
            => at(curBoard, geometricCentre(curBoard)) = "black"

\* C36: placement legality and the turn query agree: in every reachable
\* position, if attemptPly(colour, row, column) is valid for some cell then
\* the colour is colourToMove(position).
C36_PlacementByColourToMove ==
    \A playerColour \in Colours, cell \in ProbeCells :
        attemptPly(playerColour, cell[1], cell[2], gameState).valid
            => playerColour = colourToMove(gameState)

\* five moves are logged, the fifth a black stone, and a black stone is
\* accepted again while a white one is not
C36_Witness ==
    /\ movesMade(gameState) = 5
    /\ curMoves[5].playerColour = "black"
    /\ colourToMove(gameState) = "black"
    /\ \E cell \in ProbeCells :
            /\ attemptPly("black", cell[1], cell[2], gameState).valid
            /\ ~attemptPly("white", cell[1], cell[2], gameState).valid

removedCells(board) == {cell \in Cells(board) : at(board, cell) = "removed"}

removalEntries(moves) == {i \in DOMAIN moves : moves[i].removed}

\* C37: in every reachable position the log contains at most one removal
\* entry, which can only be the 7th; the board contains at most one Removed
\* cell, and only the cell of the removal entry of the log; every
\* successful removal replaces a black stone, never a white stone or an
\* empty cell.
C37_OneRemovalOfBlackStone ==
    /\ removalEntries(curMoves) \subseteq {7}
    /\ Cardinality(removedCells(curBoard)) <= 1
    /\ \A cell \in removedCells(curBoard) :
            /\ removalEntries(curMoves) = {7}
            /\ cell = <<curMoves[7].row, curMoves[7].column>>
    /\ removalEntries(curMoves) = {7} =>
            /\ \E i \in {5, 6} :
                    curMoves[i]
                        = stone("black", curMoves[7].row, curMoves[7].column)
            /\ Len(curMoves) = 7 =>
                    /\ at(previousBoard, <<curMoves[7].row, curMoves[7].column>>)
                            = "black"
                    /\ removedCells(curBoard)
                            = {<<curMoves[7].row, curMoves[7].column>>}

\* the fifth stone has been removed and two stones have been placed since:
\* the board holds one Removed cell
C37_Witness ==
    /\ Len(curMoves) = 9
    /\ removalEntries(curMoves) = {7}
    /\ curMoves[5] = stone("black", curMoves[7].row, curMoves[7].column)
    /\ isPlacement(curMoves[8])
    /\ isPlacement(curMoves[9])
    /\ Cardinality(removedCells(curBoard)) = 1

\* a stone has been placed on the cell of the removed stone: the log holds
\* the removal and the board no Removed cell
RemovedCellTakenAgain ==
    /\ removalEntries(curMoves) = {7}
    /\ removedCells(curBoard) = {}

\* checkDraw is valid for the two passes that end the log
drawByTwoPasses ==
    checkDraw(gameState)
        = [valid |-> TRUE, reason |-> "The last two moves were passes."]

\* C38: a two-pass draw requires both players: in every reachable position
\* whose last two logged moves are both passes, so that checkDraw is valid
\* for that reason, the two passes were recorded for different colours; no
\* colour logs two consecutive passes.
C38_TwoPassesOfTwoColours ==
    /\ (lastTwoPasses /\ drawByTwoPasses) =>
            curMoves[Len(curMoves)].playerColour
                # curMoves[Len(curMoves) - 1].playerColour
    /\ \A i \in 1..(Len(curMoves) - 1) :
            (~isPlacement(curMoves[i]) /\ ~isPlacement(curMoves[i + 1])
                    /\ ~curMoves[i].removed /\ ~curMoves[i + 1].removed)
                => curMoves[i].playerColour # curMoves[i + 1].playerColour

\* black has passed its fifth and its sixth move, and checkDraw is valid
\* for the two passes
BlackPassedTwice ==
    /\ Len(curMoves) = 6
    /\ curMoves[5] = pass("black")
    /\ curMoves[6] = pass("black")
    /\ drawByTwoPasses

\* what holds: from the eighth entry on, two passes that follow each other
\* have different colours
TwoPassesOfTwoColoursLater ==
    \A i \in 8..(Len(curMoves) - 1) :
        (curMoves[i] = pass(curMoves[i].playerColour)
                /\ curMoves[i + 1] = pass(curMoves[i + 1].playerColour))
            => curMoves[i].playerColour # curMoves[i + 1].playerColour

\* C39: checkWin is total on reachable positions: for each colour it returns
\* a result with valid and reason and never throws, also when the last
\* logged move is a pass or a removal while a black double-three or
\* double-four is on the board.
C39_CheckWinReturns ==
    \A playerColour \in Colours :
        LET checked == checkWin(playerColour, gameState)
        IN  /\ ~checked.threw
            /\ checked.valid \in BOOLEAN
            /\ checked.reason \in STRING

\* white passes after a black stone while a double-four stands on the
\* board: checkWin for white throws
PassAfterDoubleFour ==
    /\ Len(curMoves) >= 2
    /\ curMoves[Len(curMoves)] = pass("white")
    /\ isPlacement(curMoves[Len(curMoves) - 1])
    /\ curMoves[Len(curMoves) - 1].playerColour = "black"
    /\ blackMakesDoubleFour(curBoard)
    /\ ~checkOverline("black", curBoard)
    /\ checkWin("white", gameState) = [threw |-> TRUE]
    /\ ~checkWin("black", gameState).threw

\* what holds: checkWin for black always returns, and checkWin for white
\* returns whenever the last logged move is a stone or a removal
CheckWinReturnsAfterStone ==
    /\ ~checkWin("black", gameState).threw
    /\ (Len(curMoves) > 0 /\ curMoves[Len(curMoves)].row # -1)
            => ~checkWin("white", gameState).threw

(***************************************************************************)
(* The page.  paused is the page's flag of the same name; the popup that   *)
(* asks whether the players swap colours is shown exactly while paused is  *)
(* true after the start of the game.  The focused cell of the keyboard is  *)
(* any cell the arrow keys reach.                                          *)
(***************************************************************************)
\* updateDisplay: three logged moves show the popup and pause the page
updateDisplay(gs, wasPaused) ==
    IF movesMade(gs) = 3 THEN TRUE ELSE wasPaused

\* the game state a click on a cell leaves when the page is not paused
cellClicked(row, column) ==
    LET player == colourToMove(gameState)
        attemptedPly == attemptPly(player, row, column, gameState)
        attemptedRemove == attemptRemove(row, column, gameState)
    IN  IF attemptedPly.valid
        THEN attemptedPly.gameState
        ELSE IF attemptedRemove.valid
        THEN attemptedRemove.gameState
        ELSE gameState

\* the counters after a step from the game state to the given one
acceptedAfter(gs) ==
    IF gs = gameState
    THEN accepted
    ELSE IF gs.moves[Len(gs.moves)].row = -1
    THEN [accepted EXCEPT !.passes = @ + 1]
    ELSE IF gs.moves[Len(gs.moves)].removed
    THEN [accepted EXCEPT !.removals = @ + 1]
    ELSE [accepted EXCEPT !.placements = @ + 1]

\* the state after the start button
InitPage ==
    /\ gameState = initiateGame(Width, Height, "null").gameState
    /\ accepted = noneAccepted
    /\ returned = noneReturned
    /\ paused = updateDisplay(gameState, FALSE)

\* td.onclick
Click(row, column) ==
    /\ movesMade(gameState) < MaxMoves
    /\ IF paused
       THEN UNCHANGED vars
       ELSE /\ gameState' = cellClicked(row, column)
            /\ accepted' = acceptedAfter(cellClicked(row, column))
            /\ paused' = updateDisplay(cellClicked(row, column), paused)
            /\ UNCHANGED returned

\* the keydown listener on the key Enter, the given cell having the focus
PressEnter(row, column) ==
    /\ movesMade(gameState) < MaxMoves
    /\ IF ~paused
       THEN /\ gameState' = cellClicked(row, column)
            /\ accepted' = acceptedAfter(cellClicked(row, column))
            /\ paused' = updateDisplay(cellClicked(row, column), paused)
            /\ UNCHANGED returned
       ELSE UNCHANGED vars

\* pass_white.onclick and pass_black.onclick: pass(playerColour)
PassButton(playerColour) ==
    LET attemptedPass == attemptPass(playerColour, gameState)
    IN  /\ movesMade(gameState) < MaxMoves
        /\ IF attemptedPass.valid
           THEN /\ gameState' = attemptedPass.gameState
                /\ accepted' = acceptedAfter(attemptedPass.gameState)
                /\ paused' = updateDisplay(attemptedPass.gameState, paused)
           ELSE UNCHANGED <<gameState, accepted, paused>>
        /\ UNCHANGED returned

\* no.onclick, a button of the popup
No ==
    /\ paused
    /\ paused' = FALSE
    /\ UNCHANGED <<gameState, accepted, returned>>

\* yes.onclick, a button of the popup: the names are swapped, updateDisplay
\* pauses the page once more and the last statement clears the flag
Yes ==
    /\ paused
    /\ updateDisplay(gameState, paused)
    /\ paused' = FALSE
    /\ UNCHANGED <<gameState, accepted, returned>>

NextPage ==
    \/ \E cell \in TryCells : Click(cell[1], cell[2])
    \/ \E cell \in TryCells : PressEnter(cell[1], cell[2])
    \/ \E playerColour \in Colours : PassButton(playerColour)
    \/ No
    \/ Yes

\* games played on the page
SpecPage == InitPage /\ [][NextPage]_vars

\* C40: while the page is paused for the colour-swap decision, three moves
\* being on the log, no step of the page (cell click, Enter key, pass
\* button, popup button) changes gameState.
C40_PausedFreezesGame ==
    [][(paused /\ movesMade(gameState) = 3)
            => gameState' = gameState]_vars

\* the popup is still open and the log already holds a fourth entry, a pass
\* of white
PassedWhilePaused ==
    /\ paused
    /\ movesMade(gameState) = 4
    /\ curMoves[4] = pass("white")

\* what holds: the page is paused exactly from the third logged move until
\* a popup button is pressed, and a step that changes gameState while the
\* page is paused logs a pass and nothing else
OnlyPassesWhilePaused ==
    [][(paused /\ gameState' # gameState)
            => /\ gameState'.board = gameState.board
               /\ gameState'.moves = Append(gameState.moves,
                        pass(colourToMove(gameState)))]_vars

\* the page pauses only once three moves are logged
PausedFromThirdMove == paused => movesMade(gameState) >= 3

====
